---- MODULE Spec2Model ----
(***************************************************************************)
(* A model of the QEMU virtual-machine driver of Incus                     *)
(* (internal/server/instance/drivers/driver_qemu.go): the life cycle of    *)
(* one instance (start, stop, shutdown, onStop, update, delete, restore,   *)
(* snapshot, migrate, console retrieval), the per-instance operation lock  *)
(* those operations take, and the resources a start acquires and releases. *)
(*                                                                         *)
(* Each Go call runs as a stack of frames of one process: the API callers  *)
(* and the goroutine that runs the QMP event handler.  A frame's pc names  *)
(* the statement the call is about to execute.                             *)
(***************************************************************************)
EXTENDS Integers, Sequences, FiniteSets, TLC

\* Bounds of the model.
MaxCalls == 2
\* The number of failures the environment may inject in one behaviour.
MaxFaults == 1
\* The number of times the guest powers off by itself.
MaxPoweroffs == 1
\* The number of devices of the instance.
NumDevices == 1

\* The QMP event handler's goroutine, and the API callers.
Handler == 0
Callers == {1, 2}
Procs == {Handler} \cup Callers

VARIABLES
    stack,      \* per process: the frames of its calls, innermost last
    ret,        \* per process: what its outermost calls returned, in order
    ops,        \* every operation lock created so far; at most one is live
    qemu,       \* the QEMU process: "none", "alive", "exiting"
    qmpOK,      \* whether a live QEMU answers on its QMP socket
    mon,        \* whether the daemon holds a connected QMP monitor
    onDisc,     \* the monitor's onDisconnectEvent flag
    events,     \* SHUTDOWN events delivered and not yet handled
    pidFile,    \* whether <run>/qemu.pid exists
    mounted,    \* whether the instance's config volume is mounted
    apparmor,   \* whether the instance's AppArmor profile is loaded
    devs,       \* the number of started devices
    cfgDrive,   \* the config drive mount path: "none", "dir", "mounted"
    fds,        \* the open files of the daemon that a start passes to QEMU
    volatile,   \* the volatile.* keys of the instance's local config
    exists,     \* whether the instance still exists
    autorestart,\* whether boot.autorestart asks for a restart
    ephemeral,  \* whether the instance is ephemeral
    snaps,      \* the number of snapshots of the instance
    snapConf,   \* the volatile.* keys of the snapshot's local config
    nextUUID,   \* the next value uuid.New() returns
    busyCIDs,   \* the vsock context IDs other VMs of the host hold
    machine,    \* the machine type the installed QEMU reports
    mig,        \* the live migration: its request and QEMU's side of it
    stateful,   \* d.stateful: whether a saved state of the guest is present
    qemuCID,    \* the context ID of the vhost-vsock handle QEMU was passed
    nvram,      \* volatile.apply_nvram, the NVRAM vars file and the architecture
    bus,        \* generateQemuConfig: its inputs and its bus allocator
    upd,        \* Update: its request, its position and what it has changed
    cpu,        \* setCPUs: the CPUs of the VM, its target and its position
    dev,        \* the devices: their start and stop logs and the position
    eval,       \* a function that only computes: its name, arguments and result
    snap,       \* snapshot: its arguments, its position and the guest's run state
    rst,        \* Restore of an instance that may be ephemeral
    recv,       \* MigrateReceive and the routines of its group
    det,        \* hot-detach of a disk or a path
    mem,        \* live update of limits.memory
    calls,      \* outermost calls the callers may still make
    poweroffs,  \* the times the guest may still power off by itself
    faults      \* failures the environment may still inject

vars == <<stack, ret, ops, qemu, qmpOK, mon, onDisc, events, pidFile,
          mounted, apparmor, devs, cfgDrive, fds, volatile, exists,
          autorestart, ephemeral, snaps, snapConf,
          nextUUID, busyCIDs, machine, mig, stateful, qemuCID, nvram, bus, upd,
          cpu, dev,
          eval,
          snap,
          rst,
          recv,
          det,
          mem,
          calls,
          poweroffs,
          faults>>

lockVars == <<ops>>
\* The state of the operations that are modelled on their own.
otherVars == <<bus, upd, cpu, dev, eval, snap, rst, recv, det, mem>>
extVars == <<stateful, qemuCID, nvram, otherVars>>
baseVars == <<calls, poweroffs, busyCIDs, machine, mig>>
cntVars == <<baseVars, extVars>>
procVars == <<qemu, qmpOK, mon, onDisc, events>>
resVars == <<pidFile, mounted, apparmor, devs, cfgDrive, fds>>
confVars == <<volatile, exists, autorestart, ephemeral, snaps, snapConf,
              nextUUID>>
hostVars == <<busyCIDs, machine, mig, extVars>>
budgetVars == <<calls, poweroffs, busyCIDs, machine, extVars>>

\* The state of the lifecycle operations, and with it that of every operation
\* but the one named.
mainVars == <<stack, ret, ops, procVars, resVars, confVars, baseVars,
              stateful, qemuCID, nvram, faults>>
busRest == <<mainVars, upd, cpu, dev, eval, snap, rst, recv, det, mem>>
updRest == <<mainVars, bus, cpu, dev, eval, snap, rst, recv, det, mem>>
cpuRest == <<mainVars, bus, upd, dev, eval, snap, rst, recv, det, mem>>
devRest == <<mainVars, bus, upd, cpu, eval, snap, rst, recv, det, mem>>
evalRest == <<mainVars, bus, upd, cpu, dev, snap, rst, recv, det, mem>>
snapRest == <<mainVars, bus, upd, cpu, dev, eval, rst, recv, det, mem>>
rstRest == <<mainVars, bus, upd, cpu, dev, eval, snap, recv, det, mem>>
recvRest == <<mainVars, bus, upd, cpu, dev, eval, snap, rst, det, mem>>
detRest == <<mainVars, bus, upd, cpu, dev, eval, snap, rst, recv, mem>>
memRest == <<mainVars, bus, upd, cpu, dev, eval, snap, rst, recv, det>>

----------------------------------------------------------------------------
\* Frames and calls.

NoVolatile == [vsock |-> 0, uuid |-> 0]

NewFrame(fn, pc) ==
    [fn |-> fn, pc |-> pc, op |-> 0, w |-> 0, err |-> "nil", rv |-> "nil",
     rev |-> <<>>, nfd |-> 0, arg |-> FALSE, vset |-> NoVolatile, acq |-> "none",
     status |-> "none", mdef |-> 0, restore |-> FALSE,
     nv |-> [apply |-> "", regen |-> FALSE], target |-> "stop"]

Depth(p) == Len(stack[p])
Top(p) == stack[p][Depth(p)]
At(p, fn, pc) == Depth(p) > 0 /\ Top(p).fn = fn /\ Top(p).pc = pc

SetTop(p, f) ==
    /\ stack' = [stack EXCEPT ![p] = [@ EXCEPT ![Len(@)] = f]]
    /\ UNCHANGED ret
Goto(p, pc) == SetTop(p, [Top(p) EXCEPT !.pc = pc])

\* Call fn from the top frame of p, which resumes at contPc.
Push(p, f, contPc) ==
    /\ stack' = [stack EXCEPT ![p] = Append([@ EXCEPT ![Len(@)].pc = contPc], f)]
    /\ UNCHANGED ret

\* Return err from the top frame of p, whose check of the status saw st: to
\* the calling frame's rv, or, from the outermost frame, to ret.
Leave(p, err, st) ==
    IF Depth(p) = 1
    THEN /\ stack' = [stack EXCEPT ![p] = <<>>]
         /\ ret' = [ret EXCEPT ![p] =
                      Append(@, [fn |-> Top(p).fn, err |-> err,
                                 op |-> Top(p).op, w |-> Top(p).w,
                                 acq |-> Top(p).acq, status |-> st,
                                 arg |-> Top(p).arg, mdef |-> Top(p).mdef,
                                 target |-> Top(p).target,
                                 vol |-> volatile,
                                 nv |-> Top(p).nv, nvram |-> nvram,
                                 host |-> [machine |-> machine,
                                           busy |-> busyCIDs]])]
    ELSE /\ stack' = [stack EXCEPT ![p] =
                        [SubSeq(@, 1, Len(@) - 1) EXCEPT ![Len(@) - 1].rv = err]]
         /\ UNCHANGED ret

Return(p, err) == Leave(p, err, Top(p).status)

\* Call fn from the top frame of p after its check of the status, which saw
\* st.
PushSeen(p, f, contPc, st) ==
    /\ stack' = [stack EXCEPT ![p] =
                    Append([@ EXCEPT ![Len(@)].pc = contPc,
                                     ![Len(@)].status = st], f)]
    /\ UNCHANGED ret

----------------------------------------------------------------------------
\* The operation lock (internal/server/instance/operationlock).

Live == {i \in DOMAIN ops : ops[i].res = "live"}
Get == IF Live = {} THEN 0 ELSE CHOOSE i \in Live : TRUE

NewOp(action, reusable) ==
    [action |-> action, reusable |-> reusable, initiated |-> FALSE,
     res |-> "live"]

\* What CreateWaitGet does with a request against the current lock.
CreateWaitGet(req) ==
    LET c == Get IN
    IF c = 0 THEN "create"
    ELSE IF ops[c].action = req.action /\ (~req.reuse \/ ~ops[c].reusable)
    THEN "wait"
    ELSE IF ops[c].action \in req.inherit THEN "inherit"
    ELSE IF ops[c].reusable /\ req.reuse THEN "reuse"
    ELSE "busy"

\* op.Done(err): only the first Done of a lock has an effect.
Done(o, id, res) ==
    IF id \in DOMAIN o /\ o[id].res = "live"
    THEN [o EXCEPT ![id].res = res]
    ELSE o

SetInstanceInitiated(o, id) ==
    IF id \in DOMAIN o THEN [o EXCEPT ![id].initiated = TRUE] ELSE o

----------------------------------------------------------------------------
\* Status of the instance.

\* pid(): the PID in qemu.pid when that process is the instance's QEMU.
pid == IF pidFile /\ qemu # "none" THEN 1 ELSE 0

\* qmp.Connect: the connected monitor of the instance if there is one, else
\* a new connection to QEMU's monitor socket.
qmpConnectOK == mon \/ (qemu = "alive" /\ qmpOK)

\* Whether a command sent to a connected monitor is answered.
QmpAnswers == qemu = "alive" /\ qmpOK

\* The monitor after a successful qmp.Connect: a new monitor raises the
\* disconnect event by default.
Connected == /\ mon' = TRUE
             /\ onDisc' = (IF mon THEN onDisc ELSE TRUE)

statusCode ==
    LET c == Get IN
    IF c # 0 /\ ops[c].action = "start" THEN "Stopped"
    ELSE IF c # 0 /\ ops[c].action = "stop" THEN "Running"
    ELSE IF ~qmpConnectOK THEN (IF pid > 0 THEN "Error" ELSE "Stopped")
    ELSE IF ~QmpAnswers THEN "Error"
    ELSE "Running"

\* statusCode connects the monitor unless an operation lock answers for it.
StatusConnects ==
    LET c == Get IN
    /\ ~(c # 0 /\ ops[c].action \in {"start", "stop"})
    /\ qmpConnectOK

StatusEffect == IF StatusConnects THEN Connected ELSE UNCHANGED <<mon, onDisc>>

\* The QEMU process ends: a connected monitor disconnects, and raises the
\* SHUTDOWN event with reason disconnect if it is set to.
QemuGone ==
    /\ qemu' = "none"
    /\ qmpOK' = TRUE
    /\ mon' = FALSE
    /\ events' = IF mon /\ onDisc THEN Append(events, "stop") ELSE events
    /\ UNCHANGED onDisc

isRunningStatusCode(s) == s \in {"Running", "Frozen", "Ready"}

\* QEMU shuts down, at a quit command or when the guest powers off: it sends
\* the SHUTDOWN event, after which the monitor raises no disconnect event.
QemuShutdown ==
    /\ qemu' = "exiting"
    /\ events' = IF mon THEN Append(events, "stop") ELSE events
    /\ onDisc' = IF mon THEN FALSE ELSE onDisc
    /\ UNCHANGED <<qmpOK, mon>>

\* forceStop: kill the process pid() names, if any.
forceStop == IF pid > 0 THEN QemuGone ELSE UNCHANGED procVars

----------------------------------------------------------------------------
\* The vsock context ID of the instance.

\* The context IDs another VM of the host may hold.
HostCIDs == {3, 4}

reservedVsockID(id) == id <= 2

\* The candidates the generator seeded with the instance's UUID yields.
VsockCandidates(u) == IF u % 2 = 1 THEN <<2, 3, 4>> ELSE <<1, 4, 3>>

\* getVsockID: the ID in volatile.vsock_id, 0 for the error return.
getVsockID ==
    IF volatile.vsock = 0 \/ reservedVsockID(volatile.vsock) THEN 0
    ELSE volatile.vsock

\* acquireExistingVsockID never acquiring the stored ID.
acquireExistingVsockIDNever(busy) == 0

\* acquireExistingVsockID: 0 when the stored ID is missing or in use.
acquireExistingVsockID(busy) ==
    IF getVsockID # 0 /\ getVsockID \notin busy THEN getVsockID ELSE 0

\* The first candidate that is neither reserved nor in use, 0 at the timeout.
FirstFree(c, busy) ==
    LET ok == {i \in DOMAIN c : ~reservedVsockID(c[i]) /\ c[i] \notin busy} IN
    IF ok = {} THEN 0 ELSE c[CHOOSE i \in ok : \A j \in ok : i <= j]

\* nextVsockID: the acquired context ID, 0 for an error return.
nextVsockID(busy) ==
    IF acquireExistingVsockID(busy) # 0 THEN acquireExistingVsockID(busy)
    ELSE IF volatile.uuid = 0 THEN 0
    ELSE FirstFree(VsockCandidates(volatile.uuid), busy)

----------------------------------------------------------------------------
\* The lock requests of the operations.

StartLock == [action |-> "start", inherit |-> {"restart", "restore"},
              reusable |-> FALSE, reuse |-> FALSE]

StopLock == [action |-> "stop", inherit |-> {"restart", "restore", "migrate"},
             reusable |-> FALSE, reuse |-> TRUE]

\* ConsoleLogLock asking for a reusable lock.
ConsoleLogLockReusable ==
    [action |-> "consoleretrieve",
     inherit |-> {"restart", "restore", "migrate"},
     reusable |-> TRUE, reuse |-> TRUE]

ConsoleLogLock ==
    [action |-> "consoleretrieve",
     inherit |-> {"restart", "restore", "migrate"},
     reusable |-> FALSE, reuse |-> TRUE]

ShutdownLock == [action |-> "stop", inherit |-> {"restart"},
                 reusable |-> TRUE, reuse |-> TRUE]

UpdateLock == [action |-> "update", inherit |-> {"restart", "restore"},
               reusable |-> FALSE, reuse |-> FALSE]

DeleteLock == [action |-> "delete", inherit |-> {},
               reusable |-> FALSE, reuse |-> FALSE]

MigrateSendLock == [action |-> "migrate", inherit |-> {},
                    reusable |-> FALSE, reuse |-> TRUE]

\* The restart lock onStop asks for before an automatic restart.
OnStopLock == [action |-> "restart", inherit |-> {},
               reusable |-> TRUE, reuse |-> FALSE]

LockReq(fn) ==
    CASE fn = "start" -> StartLock
      [] fn = "Stop" -> StopLock
      [] fn = "Shutdown" -> ShutdownLock
      [] fn = "ConsoleLog" -> ConsoleLogLock
      [] fn = "Update" -> UpdateLock
      [] fn = "Delete" -> DeleteLock
      [] fn = "MigrateSend" -> MigrateSendLock
      [] fn = "onStop" -> OnStopLock

\* The pc of fn's first statement after its lock request.
Body(fn) ==
    CASE fn = "start" -> "prepare"
      [] fn = "Stop" -> "connect"
      [] fn = "Shutdown" -> "connect"
      [] fn = "ConsoleLog" -> "read"
      [] fn = "Update" -> "apply"
      [] fn = "Delete" -> "delete"
      [] fn = "MigrateSend" -> "prepare"
      [] fn = "onStop" -> "reboot"

\* LockFailed with the error of the lock request ignored: the call goes on
\* with the lock that is live.
LockFailedIgnored(p, err) ==
    SetTop(p, [Top(p) EXCEPT !.op = IF Get = 0 THEN Top(p).w ELSE Get,
                             !.pc = Body(Top(p).fn)])

\* A lock request that fails returns the error, but for onStop, which logs
\* it and goes on to restart the instance without a lock.
LockFailed(p, err) ==
    IF Top(p).fn = "onStop"
    THEN SetTop(p, [Top(p) EXCEPT !.op = 0, !.pc = "reboot"])
    ELSE Return(p, err)

\* Whether fn returns nil when the lock it waited for succeeded.
NilOnSucceeded(fn) == fn \in {"start", "Stop", "Shutdown"}

\* A call at its lock request.
Acquire(p) ==
    /\ Depth(p) > 0 /\ Top(p).pc = "lock"
    /\ LET f == Top(p)
           req == LockReq(f.fn)
           out == CreateWaitGet(req) IN
       CASE out = "create" ->
              /\ ops' = Append(ops, NewOp(req.action, req.reusable))
              /\ SetTop(p, [f EXCEPT !.op = Len(ops) + 1, !.acq = "created",
                                     !.pc = Body(f.fn)])
         [] out \in {"inherit", "reuse"} ->
              /\ SetTop(p, [f EXCEPT !.op = Get, !.acq = out,
                                     !.pc = Body(f.fn)])
              /\ UNCHANGED ops
         [] out = "wait" ->
              /\ SetTop(p, [f EXCEPT !.w = Get, !.pc = "lockwait"])
              /\ UNCHANGED ops
         [] out = "busy" ->
              /\ LockFailed(p, "err")
              /\ UNCHANGED ops
    /\ UNCHANGED <<procVars, resVars, confVars, cntVars, faults>>

\* A call waiting in CreateWaitGet for a lock of its own action to be done.
LockWait(p) ==
    /\ Depth(p) > 0 /\ Top(p).pc = "lockwait"
    /\ ops[Top(p).w].res # "live"
    /\ LockFailed(p, IF ops[Top(p).w].res = "ok" /\ NilOnSucceeded(Top(p).fn)
                     THEN "nil" ELSE "err")
    /\ UNCHANGED <<ops, procVars, resVars, confVars, cntVars, faults>>

----------------------------------------------------------------------------
\* start (driver_qemu.go 1268-2141).

\* Start checks that the instance can be started before it asks for its lock.
StartValidate(p) ==
    /\ At(p, "start", "validate")
    /\ StatusEffect
    /\ IF statusCode = "Stopped"
       THEN SetTop(p, [Top(p) EXCEPT !.pc = "lock", !.status = statusCode])
       ELSE Leave(p, "err", statusCode)
    /\ UNCHANGED <<ops, qemu, qmpOK, events, resVars, confVars,
                   cntVars, faults>>

\* The statements of start that change none of the modelled state, each with
\* the next one and whether its failure paths call op.Done(err).
StartPlain ==
    [prepare     |-> [next |-> "pidfile",     done |-> {TRUE}],
     paths       |-> [next |-> "nvram",       done |-> {TRUE, FALSE}],
     deviceLoad  |-> [next |-> "deviceStart", done |-> {TRUE}],
     config      |-> [next |-> "stateful",    done |-> {TRUE, FALSE}],
     backupFile  |-> [next |-> "launch",      done |-> {TRUE}]]

\* The other statements of start that can fail: all call op.Done(err).
StartFailable ==
    {"pidfile", "mount", "nvram", "volatileSet", "deviceStart", "configDriveDir",
     "configDriveMount", "stateful", "apparmor", "launch", "qmpConnect",
     "definition"}

StartStep(p) ==
    /\ Depth(p) > 0 /\ Top(p).fn = "start" /\ Top(p).pc \in DOMAIN StartPlain
    /\ Goto(p, StartPlain[Top(p).pc].next)
    /\ UNCHANGED <<ops, procVars, resVars, confVars, cntVars, faults>>

\* A statement of start fails: with or without op.Done(err), start returns
\* the error through its deferred calls.
StartFail(p) ==
    /\ Depth(p) > 0 /\ Top(p).fn = "start"
    /\ faults > 0
    /\ \E explicit \in BOOLEAN :
         /\ \/ Top(p).pc \in StartFailable /\ explicit
            \/ /\ Top(p).pc \in DOMAIN StartPlain
               /\ explicit \in StartPlain[Top(p).pc].done
         /\ ops' = IF explicit THEN Done(ops, Top(p).op, "err") ELSE ops
    /\ SetTop(p, [Top(p) EXCEPT !.pc = "unwind", !.err = "err"])
    /\ faults' = faults - 1
    /\ UNCHANGED <<procVars, resVars, confVars, cntVars>>

StartPidfile(p) ==
    /\ At(p, "start", "pidfile")
    /\ pidFile' = FALSE
    /\ Goto(p, "mount")
    /\ UNCHANGED <<ops, procVars, mounted, apparmor, devs, cfgDrive, fds,
                   confVars, cntVars, faults>>

StartMount(p) ==
    /\ At(p, "start", "mount")
    /\ mounted' = TRUE
    /\ SetTop(p, [Top(p) EXCEPT !.pc = "vsock",
                                !.rev = Append(@, "unmount")])
    /\ UNCHANGED <<ops, procVars, pidFile, apparmor, devs, cfgDrive, fds,
                   confVars, cntVars, faults>>

\* The context IDs the open vhost-vsock handles of the instance hold: that
\* of a QEMU that has not exited, and those of the starts in progress.
HeldCIDs ==
    (IF qemu # "none" /\ qemuCID # 0 THEN {qemuCID} ELSE {})
    \cup UNION {{stack[q][i].vset.vsock :
                    i \in {j \in DOMAIN stack[q] :
                              stack[q][j].fn = "start" /\ stack[q][j].nfd > 0}} :
                q \in Procs}

\* nextVsockID and the volatile keys start will set: a failure of
\* nextVsockID returns without op.Done(err).
StartVsock(p) ==
    /\ At(p, "start", "vsock")
    /\ LET id == nextVsockID(busyCIDs \cup HeldCIDs) IN
         /\ IF id = 0
            THEN SetTop(p, [Top(p) EXCEPT !.pc = "unwind", !.err = "err"])
            ELSE SetTop(p, [Top(p) EXCEPT
                     !.pc = "paths", !.nfd = 1,
                     !.vset = [vsock |-> id,
                               uuid |-> IF volatile.uuid = 0 THEN nextUUID
                                        ELSE volatile.uuid]])
         /\ fds' = IF id = 0 THEN fds ELSE fds + 1
         /\ nextUUID' = IF id # 0 /\ volatile.uuid = 0 THEN nextUUID + 1
                        ELSE nextUUID
    /\ UNCHANGED <<ops, procVars, pidFile, mounted, apparmor, devs, cfgDrive,
                   volatile, exists, autorestart, ephemeral, snaps, snapConf, cntVars,
                   faults>>

\* util.IsTrue of a volatile key's value.
IsTrue(v) == v = "true"

\* The NVRAM step of start regenerating the vars file only when it is
\* missing.
StartNvramMissingOnly(p) ==
    /\ At(p, "start", "nvram")
    /\ LET setup == nvram.uefi /\ ~nvram.file IN
         /\ nvram' = IF setup THEN [nvram EXCEPT !.file = TRUE] ELSE nvram
         /\ SetTop(p, [Top(p) EXCEPT
                  !.pc = "volatileSet",
                  !.nv = [apply |-> nvram.apply, regen |-> setup]])
    /\ UNCHANGED <<ops, procVars, resVars, confVars, baseVars,
                   otherVars, stateful,
                   qemuCID, faults>>

\* On an architecture with UEFI start sets up the NVRAM vars file anew when
\* volatile.apply_nvram is true or the file is missing; it clears a key that
\* is not empty with the other volatile keys.
StartNvram(p) ==
    /\ At(p, "start", "nvram")
    /\ LET setup == nvram.uefi /\ (IsTrue(nvram.apply) \/ ~nvram.file) IN
         /\ nvram' = IF setup THEN [nvram EXCEPT !.file = TRUE] ELSE nvram
         /\ SetTop(p, [Top(p) EXCEPT
                  !.pc = "volatileSet",
                  !.nv = [apply |-> nvram.apply, regen |-> setup]])
    /\ UNCHANGED <<ops, procVars, resVars, confVars, baseVars,
                   otherVars, stateful,
                   qemuCID, faults>>

\* StartVolatileSet storing the UUID only.
StartVolatileSetUUIDOnly(p) ==
    /\ At(p, "start", "volatileSet")
    /\ volatile' = [volatile EXCEPT !.uuid = Top(p).vset.uuid]
    /\ nvram' = [nvram EXCEPT !.apply = ""]
    /\ Goto(p, "deviceLoad")
    /\ UNCHANGED <<ops, procVars, resVars, exists, autorestart, ephemeral, snaps,
                   snapConf,
                   nextUUID, baseVars, otherVars, stateful, qemuCID, faults>>

\* d.VolatileSet(volatileSet): the context ID and the UUID are stored and
\* volatile.apply_nvram is cleared.
StartVolatileSet(p) ==
    /\ At(p, "start", "volatileSet")
    /\ volatile' = [volatile EXCEPT !.vsock = Top(p).vset.vsock,
                                    !.uuid = Top(p).vset.uuid]
    /\ nvram' = [nvram EXCEPT !.apply = ""]
    /\ Goto(p, "deviceLoad")
    /\ UNCHANGED <<ops, procVars, resVars, exists, autorestart, ephemeral, snaps,
                   snapConf,
                   nextUUID, baseVars, otherVars, stateful, qemuCID, faults>>

StartDevice(p) ==
    /\ At(p, "start", "deviceStart")
    /\ IF devs < NumDevices
       THEN /\ devs' = devs + 1
            /\ SetTop(p, [Top(p) EXCEPT !.rev = Append(@, "deviceStop")])
       ELSE /\ Goto(p, "configDriveDir")
            /\ UNCHANGED devs
    /\ UNCHANGED <<ops, procVars, pidFile, mounted, apparmor, cfgDrive, fds,
                   confVars, cntVars, faults>>

StartConfigDriveDir(p) ==
    /\ At(p, "start", "configDriveDir")
    /\ cfgDrive' = "dir"
    /\ SetTop(p, [Top(p) EXCEPT !.pc = "configDriveMount",
                                !.rev = Append(@, "configDriveClear")])
    /\ UNCHANGED <<ops, procVars, pidFile, mounted, apparmor, devs, fds,
                   confVars, cntVars, faults>>

StartConfigDriveMount(p) ==
    /\ At(p, "start", "configDriveMount")
    /\ cfgDrive' = "mounted"
    /\ Goto(p, "config")
    /\ UNCHANGED <<ops, procVars, pidFile, mounted, apparmor, devs, fds,
                   confVars, cntVars, faults>>

\* The machine definition QEMU is launched with, and the saved state: a
\* stateful start restores it if there is one, another start deletes it.
StartStateful(p) ==
    /\ At(p, "start", "stateful")
    /\ SetTop(p, [Top(p) EXCEPT
             !.pc = "apparmor",
             !.mdef = IF Top(p).arg THEN volatile.def ELSE 0,
             !.restore = Top(p).arg /\ stateful])
    /\ stateful' = (Top(p).arg /\ stateful)
    /\ UNCHANGED <<ops, procVars, resVars, confVars, baseVars,
                   otherVars, qemuCID,
                   nvram, faults>>

StartApparmor(p) ==
    /\ At(p, "start", "apparmor")
    /\ apparmor' = TRUE
    /\ Goto(p, "backupFile")
    /\ UNCHANGED <<ops, procVars, pidFile, mounted, devs, cfgDrive, fds,
                   confVars, cntVars, faults>>

\* StartWithFiles and Wait: QEMU daemonizes with the files start passes it,
\* the vhost-vsock handle among them, and writes its PID file.
StartLaunch(p) ==
    /\ At(p, "start", "launch")
    /\ qemu' = "alive" /\ qmpOK' = TRUE
    /\ pidFile' = TRUE
    /\ qemuCID' = IF Top(p).nfd > 0 THEN Top(p).vset.vsock ELSE 0
    /\ Goto(p, "pid")
    /\ UNCHANGED <<ops, mon, onDisc, events, mounted, apparmor, devs,
                   cfgDrive, fds, confVars, baseVars,
                   otherVars, stateful, nvram,
                   faults>>

\* pid(): start goes on only with a positive PID; with none it returns
\* pid()'s error, nil when the PID file or the process has gone.
StartPid(p) ==
    /\ At(p, "start", "pid")
    /\ \/ /\ pid > 0
          /\ SetTop(p, [Top(p) EXCEPT !.pc = "qmpConnect",
                                      !.rev = Append(@, "kill")])
          /\ UNCHANGED <<ops, faults>>
       \/ /\ pid <= 0
          /\ ops' = Done(ops, Top(p).op, "ok")
          /\ SetTop(p, [Top(p) EXCEPT !.pc = "unwind", !.err = "nil"])
          /\ UNCHANGED faults
       \/ /\ faults > 0
          /\ faults' = faults - 1
          /\ ops' = Done(ops, Top(p).op, "err")
          /\ SetTop(p, [Top(p) EXCEPT !.pc = "unwind", !.err = "err"])
    /\ UNCHANGED <<procVars, resVars, confVars, cntVars>>

StartQmpConnect(p) ==
    /\ At(p, "start", "qmpConnect")
    /\ IF qmpConnectOK
       THEN /\ Connected
            /\ Goto(p, "definition")
            /\ UNCHANGED ops
       ELSE /\ ops' = Done(ops, Top(p).op, "err")
            /\ SetTop(p, [Top(p) EXCEPT !.pc = "unwind", !.err = "err"])
            /\ UNCHANGED <<mon, onDisc>>
    /\ UNCHANGED <<qemu, qmpOK, events, resVars, confVars, cntVars, faults>>

\* The machine definition a QEMU launched with definition d reports: d, or
\* the default of the installed QEMU when d is empty.
MachineDefinition(d) == IF d # 0 THEN d ELSE machine

\* StartDefinition recording the definition at the first start only.
StartDefinitionFirstOnly(p) ==
    /\ At(p, "start", "definition")
    /\ IF Top(p).restore \/ volatile.def # 0
       THEN /\ Goto(p, "monitorSetup")
            /\ UNCHANGED <<ops, volatile>>
       ELSE IF QmpAnswers
       THEN /\ volatile' = [volatile EXCEPT
                              !.def = MachineDefinition(Top(p).mdef)]
            /\ Goto(p, "monitorSetup")
            /\ UNCHANGED ops
       ELSE /\ ops' = Done(ops, Top(p).op, "err")
            /\ SetTop(p, [Top(p) EXCEPT !.pc = "unwind", !.err = "err"])
            /\ UNCHANGED volatile
    /\ UNCHANGED <<procVars, resVars, exists, autorestart, ephemeral, snaps, snapConf,
                   nextUUID,
                   cntVars, faults>>

\* A start that does not restore a saved state records the machine
\* definition QEMU reports.
StartDefinition(p) ==
    /\ At(p, "start", "definition")
    /\ IF Top(p).restore
       THEN /\ Goto(p, "monitorSetup")
            /\ UNCHANGED <<ops, volatile>>
       ELSE IF QmpAnswers
       THEN /\ volatile' = [volatile EXCEPT
                              !.def = MachineDefinition(Top(p).mdef)]
            /\ Goto(p, "monitorSetup")
            /\ UNCHANGED ops
       ELSE /\ ops' = Done(ops, Top(p).op, "err")
            /\ SetTop(p, [Top(p) EXCEPT !.pc = "unwind", !.err = "err"])
            /\ UNCHANGED volatile
    /\ UNCHANGED <<procVars, resVars, exists, autorestart, ephemeral, snaps, snapConf,
                   nextUUID,
                   cntVars, faults>>

\* SetOnDisconnectEvent(false), the hooks, monitor.Start, recordLastState and
\* reverter.Success(); a failure after the first of these calls op.Done(err).
StartMonitorSetup(p) ==
    /\ At(p, "start", "monitorSetup")
    /\ onDisc' = FALSE
    /\ \/ /\ QmpAnswers
          /\ SetTop(p, [Top(p) EXCEPT !.pc = "postStart", !.rev = <<>>])
          /\ stateful' = (stateful /\ ~Top(p).restore)
          /\ UNCHANGED <<ops, faults>>
       \/ /\ ~QmpAnswers \/ faults > 0
          /\ faults' = IF QmpAnswers THEN faults - 1 ELSE faults
          /\ ops' = Done(ops, Top(p).op, "err")
          /\ SetTop(p, [Top(p) EXCEPT !.pc = "unwind", !.err = "err"])
          /\ UNCHANGED stateful
    /\ UNCHANGED <<qemu, qmpOK, mon, events, resVars, confVars, baseVars,
                   otherVars,
                   qemuCID, nvram>>

\* The post-start hooks: when one fails start marks its lock done and stops
\* the instance.
StartPostStart(p) ==
    /\ At(p, "start", "postStart")
    /\ \/ /\ Goto(p, "finish")
          /\ UNCHANGED <<ops, faults>>
       \/ /\ faults > 0
          /\ faults' = faults - 1
          /\ ops' = Done(ops, Top(p).op, "err")
          /\ Push(p, NewFrame("Stop", "status"), "stopped")
    /\ UNCHANGED <<procVars, resVars, confVars, cntVars>>

StartStopped(p) ==
    /\ At(p, "start", "stopped")
    /\ SetTop(p, [Top(p) EXCEPT !.pc = "unwind", !.err = "err"])
    /\ UNCHANGED <<ops, procVars, resVars, confVars, cntVars, faults>>

StartFinish(p) ==
    /\ At(p, "start", "finish")
    /\ onDisc' = TRUE
    /\ ops' = Done(ops, Top(p).op, "ok")
    /\ SetTop(p, [Top(p) EXCEPT !.pc = "unwind", !.err = "nil"])
    /\ UNCHANGED <<qemu, qmpOK, mon, events, resVars, confVars, cntVars, faults>>

Has(seq, x) == \E i \in DOMAIN seq : seq[i] = x
Count(seq, x) == Cardinality({i \in DOMAIN seq : seq[i] = x})

\* start returns: the deferred calls run last-first: the passed files are
\* closed, reverter.Fail() runs what the reverter holds, and op.Done(nil).
StartUnwind(p) ==
    /\ At(p, "start", "unwind")
    /\ LET rev == Top(p).rev IN
       /\ IF Has(rev, "kill") /\ qemu # "none"
          THEN QemuGone
          ELSE UNCHANGED procVars
       /\ cfgDrive' = IF Has(rev, "configDriveClear") THEN "none" ELSE cfgDrive
       /\ devs' = IF devs > Count(rev, "deviceStop")
                  THEN devs - Count(rev, "deviceStop") ELSE 0
       /\ mounted' = IF Has(rev, "unmount") THEN FALSE ELSE mounted
    /\ fds' = fds - Top(p).nfd
    /\ ops' = Done(ops, Top(p).op, "ok")
    /\ Return(p, Top(p).err)
    /\ UNCHANGED <<pidFile, apparmor, confVars, cntVars, faults>>

----------------------------------------------------------------------------
\* ConsoleLog (driver_qemu.go 10084-10130).

\* ConsoleLog marking done whatever lock it has got.
ConsoleLogReadDoneAlways(p) ==
    /\ At(p, "ConsoleLog", "read")
    /\ IF qmpConnectOK THEN Connected ELSE UNCHANGED <<mon, onDisc>>
    /\ ops' = Done(ops, Top(p).op, "ok")
    /\ Return(p, IF qmpConnectOK /\ QmpAnswers THEN "nil" ELSE "err")
    /\ UNCHANGED <<qemu, qmpOK, events, resVars, confVars, cntVars, faults>>

\* ConsoleLog after its lock request: it reads the ring buffer and marks the
\* lock done only if the lock is its own.
ConsoleLogRead(p) ==
    /\ At(p, "ConsoleLog", "read")
    /\ IF qmpConnectOK THEN Connected ELSE UNCHANGED <<mon, onDisc>>
    /\ ops' = IF ops[Top(p).op].action = "consoleretrieve"
              THEN Done(ops, Top(p).op, "ok") ELSE ops
    /\ Return(p, IF qmpConnectOK /\ QmpAnswers THEN "nil" ELSE "err")
    /\ UNCHANGED <<qemu, qmpOK, events, resVars, confVars, cntVars, faults>>

----------------------------------------------------------------------------
\* Stop (driver_qemu.go 5334-5482).

\* Stop goes on when the status is running, Error or Frozen, and first saves
\* the console log.
StopStatus(p) ==
    /\ At(p, "Stop", "status")
    /\ StatusEffect
    /\ IF isRunningStatusCode(statusCode) \/ statusCode = "Error"
       THEN PushSeen(p, NewFrame("ConsoleLog", "lock"), "lock", statusCode)
       ELSE Leave(p, "err", statusCode)
    /\ UNCHANGED <<ops, qemu, qmpOK, events, resVars, confVars, cntVars, faults>>

\* qmpConnect: when it fails Stop kills the process and runs onStop itself.
StopConnect(p) ==
    /\ At(p, "Stop", "connect")
    /\ IF qmpConnectOK
       THEN /\ Connected
            /\ Goto(p, "quit")
            /\ UNCHANGED <<qemu, qmpOK, events>>
       ELSE /\ forceStop
            /\ Push(p, [NewFrame("onStop", "setup") EXCEPT
                           !.arg = (stack[p][1].fn = "MigrateSend")],
                    "inline")
    /\ UNCHANGED <<ops, resVars, confVars, cntVars, faults>>

StopInline(p) ==
    /\ At(p, "Stop", "inline")
    /\ ops' = Done(ops, Top(p).op, IF Top(p).rv = "nil" THEN "ok" ELSE "err")
    /\ Return(p, Top(p).rv)
    /\ UNCHANGED <<procVars, resVars, confVars, cntVars, faults>>

\* monitor.Quit: QEMU shuts down, or Stop kills a QEMU that does not answer.
\* A stateful Stop saves the state and sets the stateful flag before, and
\* returns the error when QEMU does not save it.
StopQuit(p) ==
    /\ At(p, "Stop", "quit")
    /\ \/ /\ Top(p).arg /\ (~QmpAnswers \/ faults > 0)
          /\ faults' = (IF QmpAnswers THEN faults - 1 ELSE faults)
          /\ ops' = Done(ops, Top(p).op, "err")
          /\ Return(p, "err")
          /\ UNCHANGED <<procVars, stateful>>
       \/ /\ ~(Top(p).arg /\ ~QmpAnswers)
          /\ IF QmpAnswers THEN QemuShutdown ELSE forceStop
          /\ Goto(p, "disconnect")
          /\ stateful' = (stateful \/ Top(p).arg)
          /\ UNCHANGED <<ops, faults>>
    /\ UNCHANGED <<resVars, confVars, baseVars, qemuCID, nvram, otherVars>>

\* Stop waits for the monitor to disconnect, 30 s at most, then kills QEMU.
StopDisconnect(p) ==
    /\ At(p, "Stop", "disconnect")
    /\ IF mon THEN forceStop ELSE UNCHANGED procVars
    /\ Goto(p, "opWait")
    /\ UNCHANGED <<ops, resVars, confVars, cntVars, faults>>

\* op.Wait: Stop waits for its lock to be done, by onStop, then checks the
\* status.
StopWait(p) ==
    /\ At(p, "Stop", "opWait")
    /\ ops[Top(p).op].res # "live"
    /\ StatusEffect
    /\ Return(p, IF statusCode = "Stopped" /\ ops[Top(p).op].res = "ok"
                 THEN "nil" ELSE "err")
    /\ UNCHANGED <<ops, qemu, qmpOK, events, resVars, confVars, cntVars, faults>>

----------------------------------------------------------------------------
\* onStop (driver_qemu.go 666-771), run by the handler of the SHUTDOWN event
\* and by Stop.

\* The actions whose lock onStopOperationSetup picks up.
OnStopInherits == {"start", "restart", "stop", "restore", "migrate"}

\* The action of the lock onStopOperationSetup creates for a stop that no
\* call asked for: a restart lock for a reboot, which Start inherits.
OnStopAction(target) == IF target = "reboot" THEN "restart" ELSE "stop"

\* onStopOperationSetup: pick up the live lock, or wait for a lock of another
\* action and then create a stop lock, marked as initiated by the instance.
OnStopSetup(p) ==
    /\ At(p, "onStop", "setup")
    /\ LET c == Get IN
       IF c # 0 /\ ops[c].action \in OnStopInherits
       THEN /\ SetTop(p, [Top(p) EXCEPT !.op = c, !.pc = "pidWait"])
            /\ UNCHANGED ops
       ELSE IF c # 0
       THEN /\ SetTop(p, [Top(p) EXCEPT !.w = c, !.pc = "setupWait"])
            /\ UNCHANGED ops
       ELSE /\ ops' = Append(ops, [NewOp(OnStopAction(Top(p).target),
                                           FALSE)
                                     EXCEPT !.initiated = TRUE])
            /\ SetTop(p, [Top(p) EXCEPT !.op = Len(ops) + 1,
                                        !.pc = "pidWait"])
    /\ UNCHANGED <<procVars, resVars, confVars, cntVars, faults>>

\* After the wait onStopOperationSetup creates its lock, which fails when
\* another lock is live by then.
OnStopSetupWait(p) ==
    /\ At(p, "onStop", "setupWait")
    /\ ops[Top(p).w].res # "live"
    /\ IF Get = 0
       THEN /\ ops' = Append(ops, [NewOp(OnStopAction(Top(p).target),
                                           FALSE)
                                     EXCEPT !.initiated = TRUE])
            /\ SetTop(p, [Top(p) EXCEPT !.op = Len(ops) + 1,
                                        !.pc = "pidWait"])
       ELSE /\ Return(p, "err")
            /\ UNCHANGED ops
    /\ UNCHANGED <<procVars, resVars, confVars, cntVars, faults>>

\* During an intra-cluster move under the same name, onStop's VolatileSet
\* reaches the database unless it runs on the sender's instance, which has
\* volatileSetPersistDisable set, and its device cleanup runs against the
\* instance onStop was called on: the sender's (own) or one loaded from the
\* database.
VolatileSetAndCleanup(own) ==
    IF mig.sameName
    THEN [mig EXCEPT !.wrote = @ \/ ~(own /\ mig.persistOff),
                     !.cleanup = IF own THEN "ref" ELSE "db"]
    ELSE mig

\* pidWait: onStop waits for the QEMU process to end, 5 minutes at most.
OnStopPidWait(p) ==
    /\ At(p, "onStop", "pidWait")
    /\ \/ pid <= 0 /\ UNCHANGED faults
       \/ pid > 0 /\ faults > 0 /\ faults' = faults - 1
    /\ Goto(p, "cleanup")
    /\ UNCHANGED <<ops, procVars, resVars, confVars, cntVars>>

\* onStop unmounting the config volume before it stops the devices.
OnStopCleanupUnmountsFirst(p) ==
    /\ At(p, "onStop", "cleanup")
    /\ mounted' = FALSE
    /\ Goto(p, "unmount")
    /\ UNCHANGED <<ops, procVars, pidFile, apparmor, devs, cfgDrive, fds,
                   confVars, cntVars, faults>>

\* The record of the power state, then cleanupDevices and the removal of the
\* PID file and of the sockets.
OnStopCleanup(p) ==
    /\ At(p, "onStop", "cleanup")
    /\ mig' = VolatileSetAndCleanup(Top(p).arg)
    /\ devs' = 0 /\ cfgDrive' = "none"
    /\ pidFile' = FALSE
    /\ Goto(p, "unmount")
    /\ UNCHANGED <<ops, procVars, mounted, apparmor, fds, confVars,
                   budgetVars, faults>>

OnStopUnmount(p) ==
    /\ At(p, "onStop", "unmount")
    /\ \/ /\ mounted' = FALSE
          /\ Goto(p, "apparmor")
          /\ UNCHANGED <<ops, faults>>
       \/ /\ faults > 0 /\ faults' = faults - 1
          /\ ops' = Done(ops, Top(p).op, "err")
          /\ Return(p, "err")
          /\ UNCHANGED mounted
    /\ UNCHANGED <<procVars, pidFile, apparmor, devs, cfgDrive, fds, confVars,
                   cntVars>>

OnStopApparmor(p) ==
    /\ At(p, "onStop", "apparmor")
    /\ \/ /\ apparmor' = FALSE
          /\ Goto(p, "restart")
          /\ UNCHANGED <<ops, faults>>
       \/ /\ faults > 0 /\ faults' = faults - 1
          /\ ops' = Done(ops, Top(p).op, "err")
          /\ Return(p, "err")
          /\ UNCHANGED apparmor
    /\ UNCHANGED <<procVars, pidFile, mounted, devs, cfgDrive, fds, confVars,
                   cntVars>>

\* shouldAutoRestart: boot.autorestart asks for it.
shouldAutoRestart == autorestart

\* onStop restarting the instance only by boot.autorestart.
OnStopRestartAutoOnly(p) ==
    /\ At(p, "onStop", "restart")
    /\ IF ops[Top(p).op].initiated /\ shouldAutoRestart
       THEN /\ ops' = Done(ops, Top(p).op, "ok")
            /\ SetTop(p, [Top(p) EXCEPT !.op = 0, !.pc = "lock"])
       ELSE /\ Goto(p, "return")
            /\ UNCHANGED ops
    /\ UNCHANGED <<procVars, resVars, confVars, cntVars, faults>>

\* onStop restarting the instance only when its target is reboot.
OnStopRestartRebootOnly(p) ==
    /\ At(p, "onStop", "restart")
    /\ Goto(p, IF Top(p).target = "reboot" THEN "reboot" ELSE "return")
    /\ UNCHANGED <<ops, procVars, resVars, confVars, cntVars, faults>>

\* An instance that stopped by itself is restarted when boot.autorestart
\* says so: onStop marks the stop lock done and asks for a restart lock.
OnStopRestart(p) ==
    /\ At(p, "onStop", "restart")
    /\ IF Top(p).target # "reboot" /\ ops[Top(p).op].initiated
          /\ shouldAutoRestart
       THEN /\ ops' = Done(ops, Top(p).op, "ok")
            /\ SetTop(p, [Top(p) EXCEPT !.op = 0, !.pc = "lock"])
       ELSE /\ Goto(p, IF Top(p).target = "reboot" THEN "reboot"
                       ELSE "return")
            /\ UNCHANGED ops
    /\ UNCHANGED <<procVars, resVars, confVars, cntVars, faults>>

\* The restart: onStop calls Start.
OnStopReboot(p) ==
    /\ At(p, "onStop", "reboot")
    /\ Push(p, NewFrame("start", "validate"), "started")
    /\ UNCHANGED <<ops, procVars, resVars, confVars, cntVars, faults>>

OnStopStarted(p) ==
    /\ At(p, "onStop", "started")
    /\ ops' = Done(ops, Top(p).op, IF Top(p).rv = "nil" THEN "ok" ELSE "err")
    /\ Return(p, Top(p).rv)
    /\ UNCHANGED <<procVars, resVars, confVars, cntVars, faults>>

\* onStop returns, after it has deleted an ephemeral instance; the deferred
\* op.Done(nil) marks the lock done.
OnStopReturn(p) ==
    /\ At(p, "onStop", "return")
    /\ \/ /\ exists' = (exists /\ ~ephemeral)
          /\ ops' = Done(ops, Top(p).op, "ok")
          /\ Return(p, "nil")
          /\ UNCHANGED faults
       \/ /\ ephemeral /\ faults > 0 /\ faults' = faults - 1
          /\ ops' = Done(ops, Top(p).op, "err")
          /\ Return(p, "err")
          /\ UNCHANGED exists
    /\ UNCHANGED <<procVars, resVars, volatile, autorestart, ephemeral, snaps,
                   snapConf, nextUUID, cntVars>>

\* The monitor's event handler runs onStop at a SHUTDOWN event.
\* The events the handler acts on: SHUTDOWN, with reason guest-reset
\* ("reboot") or another ("stop"), GUEST_AGENT_STARTED and RTC_CHANGE.
HandledEvents == {"stop", "reboot", "agent", "rtc"}

\* The events that make the handler run onStop, whose target they are.
ShutdownEvents == {"stop", "reboot"}

HandleEventFromDatabase ==
    /\ Depth(Handler) = 0
    /\ events # <<>>
    /\ events' = Tail(events)
    /\ stack' = [stack EXCEPT ![Handler] =
                    IF Head(events) \in ShutdownEvents
                    THEN <<[NewFrame("onStop", "setup") EXCEPT
                              !.target = Head(events)]>>
                    ELSE <<>>]
    /\ UNCHANGED <<ret, ops, qemu, qmpOK, mon, onDisc, resVars, confVars,
                   cntVars, faults>>

\* The handler runs onStop on the instance instanceRefGet returns, if any,
\* else on the instance it loads from the database.
HandleEvent ==
    /\ Depth(Handler) = 0
    /\ events # <<>>
    /\ events' = Tail(events)
    /\ stack' = [stack EXCEPT ![Handler] =
                    IF Head(events) \in ShutdownEvents
                    THEN <<[NewFrame("onStop", "setup") EXCEPT
                              !.arg = mig.ref, !.target = Head(events)]>>
                    ELSE <<>>]
    /\ UNCHANGED <<ret, ops, qemu, qmpOK, mon, onDisc, resVars, confVars,
                   cntVars, faults>>

----------------------------------------------------------------------------
\* Shutdown (driver_qemu.go 774-872).

\* ShutdownStatus letting the status Error through, as Stop does.
ShutdownStatusErrorAllowed(p) ==
    /\ At(p, "Shutdown", "status")
    /\ StatusEffect
    /\ IF isRunningStatusCode(statusCode) \/ statusCode = "Error"
       THEN PushSeen(p, NewFrame("ConsoleLog", "lock"), "console", statusCode)
       ELSE Leave(p, "err", statusCode)
    /\ UNCHANGED <<ops, qemu, qmpOK, events, resVars, confVars, cntVars, faults>>

\* Shutdown is refused unless the instance is running.
ShutdownStatus(p) ==
    /\ At(p, "Shutdown", "status")
    /\ StatusEffect
    /\ IF isRunningStatusCode(statusCode)
       THEN PushSeen(p, NewFrame("ConsoleLog", "lock"), "console", statusCode)
       ELSE Leave(p, "err", statusCode)
    /\ UNCHANGED <<ops, qemu, qmpOK, events, resVars, confVars, cntVars, faults>>

ShutdownConsole(p) ==
    /\ At(p, "Shutdown", "console")
    /\ IF Top(p).rv = "nil" THEN Goto(p, "lock") ELSE Return(p, "err")
    /\ UNCHANGED <<ops, procVars, resVars, confVars, cntVars, faults>>

\* Shutdown resumes a frozen guest, which may fail, and connects to the
\* monitor; whether the guest is frozen is the environment's choice.
ShutdownConnect(p) ==
    /\ At(p, "Shutdown", "connect")
    /\ \/ /\ IF qmpConnectOK
             THEN /\ Connected
                  /\ ops' = SetInstanceInitiated(ops, Top(p).op)
                  /\ Goto(p, "powerdown")
             ELSE /\ ops' = Done(ops, Top(p).op, "err")
                  /\ Return(p, "err")
                  /\ UNCHANGED <<mon, onDisc>>
          /\ UNCHANGED faults
       \/ /\ QmpAnswers /\ faults > 0 /\ faults' = faults - 1
          /\ Return(p, "err")
          /\ UNCHANGED <<ops, mon, onDisc>>
    /\ UNCHANGED <<qemu, qmpOK, events, resVars, confVars, cntVars>>

\* monitor.Powerdown: the guest may obey, and power off, or ignore it.
ShutdownPowerdown(p) ==
    /\ At(p, "Shutdown", "powerdown")
    /\ IF QmpAnswers
       THEN /\ \/ QemuShutdown
               \/ UNCHANGED procVars
            /\ Goto(p, "opWait")
            /\ UNCHANGED ops
       ELSE /\ ops' = Done(ops, Top(p).op, IF mon THEN "err" ELSE "ok")
            /\ Return(p, IF mon THEN "err" ELSE "nil")
            /\ UNCHANGED procVars
    /\ UNCHANGED <<resVars, confVars, cntVars, faults>>

\* ShutdownWait without the check of the status and of the lock's result.
ShutdownWaitUnchecked(p) ==
    /\ At(p, "Shutdown", "opWait")
    /\ StatusEffect
    /\ Return(p, "nil")
    /\ UNCHANGED <<ops, qemu, qmpOK, events, resVars, confVars, cntVars, faults>>

\* op.Wait(ctx): Shutdown waits for its lock to be done or for its timeout,
\* then checks the status.
ShutdownWait(p) ==
    /\ At(p, "Shutdown", "opWait")
    /\ StatusEffect
    /\ Return(p, IF statusCode = "Stopped" /\ ops[Top(p).op].res = "ok"
                 THEN "nil" ELSE "err")
    /\ UNCHANGED <<ops, qemu, qmpOK, events, resVars, confVars, cntVars, faults>>

----------------------------------------------------------------------------
\* Update (5944-6500), Delete (6745-6782), Snapshot (5508-5569).

\* Whether p's Update is the one Restore calls with the snapshot's
\* configuration.
FromRestore(p) == Depth(p) > 1 /\ stack[p][Depth(p) - 1].fn = "Restore"

\* Update leaving the local config as it is.
UpdateApplyKeepsConfig(p) ==
    /\ At(p, "Update", "apply")
    /\ \/ /\ Return(p, "nil")
          /\ UNCHANGED faults
       \/ /\ faults > 0 /\ faults' = faults - 1
          /\ Return(p, "err")
    /\ ops' = Done(ops, Top(p).op, "ok")
    /\ UNCHANGED <<procVars, resVars, confVars, cntVars>>

\* Update sets the local config to the request's: the one Restore calls
\* sets it to the snapshot's, volatile keys included.
UpdateApply(p) ==
    /\ At(p, "Update", "apply")
    /\ \/ /\ Return(p, "nil")
          /\ volatile' = IF FromRestore(p) THEN snapConf ELSE volatile
          /\ UNCHANGED faults
       \/ /\ faults > 0 /\ faults' = faults - 1
          /\ Return(p, "err")
          /\ UNCHANGED volatile
    /\ ops' = Done(ops, Top(p).op, "ok")
    /\ UNCHANGED <<procVars, resVars, exists, autorestart, ephemeral, snaps, snapConf,
                   nextUUID, cntVars>>

DeleteRun(p) ==
    /\ At(p, "Delete", "delete")
    /\ StatusEffect
    /\ IF isRunningStatusCode(statusCode)
       THEN Return(p, "err") /\ UNCHANGED exists
       ELSE Return(p, "nil") /\ exists' = FALSE
    /\ ops' = Done(ops, Top(p).op, "ok")
    /\ UNCHANGED <<qemu, qmpOK, events, resVars, volatile, autorestart, ephemeral,
                   snaps, snapConf,
                   nextUUID, cntVars, faults>>

\* The snapshots an instance may have.
MaxSnaps == 1

\* The configuration of a snapshot that does not exist.
NoSnapshot == [uuid |-> 0, vsock |-> 0, def |-> 0]

SnapshotBegin(p) ==
    /\ At(p, "Snapshot", "begin")
    /\ Goto(p, "snapshotCommon")
    /\ UNCHANGED <<ops, procVars, resVars, confVars, cntVars, faults>>

SnapshotCommon(p) ==
    /\ At(p, "Snapshot", "snapshotCommon")
    /\ \/ /\ snaps' = IF snaps < MaxSnaps THEN snaps + 1 ELSE snaps
          /\ snapConf' = volatile
          /\ Return(p, "nil")
          /\ UNCHANGED faults
       \/ /\ faults > 0 /\ faults' = faults - 1
          /\ Return(p, "err")
          /\ UNCHANGED <<snaps, snapConf>>
    /\ UNCHANGED <<ops, procVars, resVars, volatile, exists, autorestart, ephemeral,
                   nextUUID, cntVars>>

----------------------------------------------------------------------------
\* Restore (driver_qemu.go 5572-5690).

\* operationlock.Create of a lock that is not reusable: busy when a lock is
\* live.
RestoreCreate(p) ==
    /\ Depth(p) > 0 /\ Top(p).fn = "Restore"
    /\ Top(p).pc \in {"create", "recreate"}
    /\ IF Get = 0
       THEN /\ ops' = Append(ops, NewOp("restore", FALSE))
            /\ SetTop(p, [Top(p) EXCEPT
                 !.op = Len(ops) + 1, !.acq = "created",
                 !.pc = IF Top(p).pc = "create" THEN "running" ELSE "restore"])
       ELSE /\ Return(p, "err")
            /\ UNCHANGED ops
    /\ UNCHANGED <<procVars, resVars, confVars, cntVars, faults>>

\* A running instance is stopped first.
RestoreRunning(p) ==
    /\ At(p, "Restore", "running")
    /\ StatusEffect
    /\ IF isRunningStatusCode(statusCode)
       THEN /\ stack' = [stack EXCEPT ![p] =
                 Append([@ EXCEPT ![Len(@)].pc = "stopped",
                                  ![Len(@)].arg = TRUE],
                        NewFrame("Stop", "status"))]
            /\ UNCHANGED ret
       ELSE Goto(p, "restore")
    /\ UNCHANGED <<ops, qemu, qmpOK, events, resVars, confVars, cntVars, faults>>

\* Stop has marked the lock done: Restore creates its lock again.
RestoreStopped(p) ==
    /\ At(p, "Restore", "stopped")
    /\ IF Top(p).rv = "nil"
       THEN Goto(p, "recreate") /\ UNCHANGED ops
       ELSE Return(p, "err") /\ ops' = Done(ops, Top(p).op, "err")
    /\ UNCHANGED <<procVars, resVars, confVars, cntVars, faults>>

\* RestoreInstanceSnapshot, then Update with the snapshot's configuration.
RestoreSnapshot(p) ==
    /\ At(p, "Restore", "restore")
    /\ \/ /\ Push(p, NewFrame("Update", "lock"), "updated")
          /\ UNCHANGED <<ops, faults>>
       \/ /\ faults > 0 /\ faults' = faults - 1
          /\ ops' = Done(ops, Top(p).op, "err")
          /\ Return(p, "err")
    /\ UNCHANGED <<procVars, resVars, confVars, cntVars>>

\* Restore starting the instance whether or not it was running.
RestoreUpdatedStartsAlways(p) ==
    /\ At(p, "Restore", "updated")
    /\ IF Top(p).rv # "nil"
       THEN Return(p, "err") /\ ops' = Done(ops, Top(p).op, "err")
       ELSE Push(p, NewFrame("start", "validate"), "started") /\ UNCHANGED ops
    /\ UNCHANGED <<procVars, resVars, confVars, cntVars, faults>>

\* An instance that was running is started again.
RestoreUpdated(p) ==
    /\ At(p, "Restore", "updated")
    /\ IF Top(p).rv # "nil"
       THEN Return(p, "err") /\ ops' = Done(ops, Top(p).op, "err")
       ELSE IF Top(p).arg
       THEN Push(p, NewFrame("start", "validate"), "started") /\ UNCHANGED ops
       ELSE Return(p, "nil") /\ ops' = Done(ops, Top(p).op, "ok")
    /\ UNCHANGED <<procVars, resVars, confVars, cntVars, faults>>

RestoreStarted(p) ==
    /\ At(p, "Restore", "started")
    /\ ops' = Done(ops, Top(p).op, IF Top(p).rv = "nil" THEN "ok" ELSE "err")
    /\ Return(p, Top(p).rv)
    /\ UNCHANGED <<procVars, resVars, confVars, cntVars, faults>>

----------------------------------------------------------------------------
\* migrateSendLive (driver_qemu.go 7406-7818).

\* No migration: target says whether the receiver accepts QEMU to QEMU state
\* transfer, cluster and shared are the request's intra-cluster move and
\* same shared storage, the rest is QEMU's side: the guest paused, the
\* migration snapshot ("none", "active", "committed"), its block node, the
\* NBD target node, the mirror job, and the commands sent so far. sameName is
\* the request's intra-cluster move under the instance's own name, persistOff
\* the sender's volatileSetPersistDisable, ref the instance reference it has
\* registered; wrote says that a VolatileSet of the source reached the
\* database since the transfer began, and cleanup which instance the device
\* cleanup of onStop ran against ("none", "ref", "db").
NoMigration ==
    [target |-> FALSE, cluster |-> FALSE, shared |-> FALSE, paused |-> FALSE,
     snap |-> "none", node |-> FALSE, nbd |-> FALSE, job |-> FALSE,
     log |-> <<>>, ctl |-> "none", xfer |-> "none", first |-> "none",
     cancelled |-> FALSE, disc |-> FALSE, live |-> FALSE,
     sameName |-> FALSE, persistOff |-> FALSE, ref |-> FALSE,
     wrote |-> FALSE, cleanup |-> "none"]

\* A step of migrateSendLive that sends commands to QEMU: when QEMU answers
\* the migration becomes m, the reverter gets add and the step goes on at
\* next; else the step fails.
MigrateCmd(p, next, m, add) ==
    /\ IF QmpAnswers
       THEN /\ SetTop(p, [Top(p) EXCEPT !.pc = next, !.rev = @ \o add])
            /\ mig' = m
       ELSE /\ SetTop(p, [Top(p) EXCEPT !.pc = "unwind", !.err = "err"])
            /\ UNCHANGED mig
    /\ UNCHANGED <<ops, procVars, resVars, confVars, budgetVars, faults>>

Logged(cmd) == [mig EXCEPT !.log = Append(@, cmd)]

MigrateLiveConnect(p) ==
    /\ At(p, "migrateSendLive", "connect")
    /\ IF qmpConnectOK
       THEN Connected /\ Goto(p, "capabilities")
       ELSE UNCHANGED <<mon, onDisc>> /\ Return(p, "err")
    /\ UNCHANGED <<ops, qemu, qmpOK, events, resVars, confVars, cntVars,
                   faults>>

\* The statements of migrateSendLive that can fail.
MigrateLiveFailable ==
    {"capabilities", "snapshotNode", "blockdevSnapshot", "storage", "nbd",
     "mirror", "saveState", "preSwitchover", "jobCancel", "continue",
     "completed", "resume", "commit"}

\* A statement of migrateSendLive fails: it returns the error through its
\* deferred calls.
MigrateLiveFail(p) ==
    /\ Depth(p) > 0 /\ Top(p).fn = "migrateSendLive"
    /\ Top(p).pc \in MigrateLiveFailable
    /\ faults > 0
    /\ faults' = faults - 1
    /\ SetTop(p, [Top(p) EXCEPT !.pc = "unwind", !.err = "err"])
    /\ UNCHANGED <<ops, procVars, resVars, confVars, cntVars>>

MigrateLiveCapabilities(p) ==
    /\ At(p, "migrateSendLive", "capabilities")
    /\ MigrateCmd(p, IF mig.shared THEN "storage" ELSE "snapshotNode",
                  Logged("migrate-set-capabilities"), <<>>)

\* The qcow2 file of the migration snapshot, passed to QEMU and added as a
\* block node that a deferred call removes.
MigrateLiveSnapshotNode(p) ==
    /\ At(p, "migrateSendLive", "snapshotNode")
    /\ MigrateCmd(p, "blockdevSnapshot",
                  [Logged("blockdev-add") EXCEPT !.node = TRUE], <<>>)

\* MigrateLiveSnapshot without the revert that resumes the guest and commits
\* the snapshot.
MigrateLiveSnapshotNoRevert(p) ==
    /\ At(p, "migrateSendLive", "blockdevSnapshot")
    /\ MigrateCmd(p, "storage",
                  [Logged("blockdev-snapshot") EXCEPT !.snap = "active"], <<>>)

\* blockdev-snapshot redirects the guest's writes to the snapshot; from here
\* the reverter resumes the guest and commits the snapshot.
MigrateLiveSnapshot(p) ==
    /\ At(p, "migrateSendLive", "blockdevSnapshot")
    /\ MigrateCmd(p, "storage",
                  [Logged("blockdev-snapshot") EXCEPT !.snap = "active"],
                  <<"commit">>)

\* The storage driver's MigrateInstance, with AllowInconsistent.
MigrateLiveStorage(p) ==
    /\ At(p, "migrateSendLive", "storage")
    /\ SetTop(p, [Top(p) EXCEPT !.pc = IF mig.shared THEN "saveState"
                                       ELSE "nbd"])
    /\ mig' = Logged("MigrateInstance")
    /\ UNCHANGED <<ops, procVars, resVars, confVars, budgetVars, faults>>

MigrateLiveNBD(p) ==
    /\ At(p, "migrateSendLive", "nbd")
    /\ MigrateCmd(p, "mirror", [Logged("blockdev-add-nbd") EXCEPT !.nbd = TRUE],
                  <<"removeNBD">>)

MigrateLiveMirror(p) ==
    /\ At(p, "migrateSendLive", "mirror")
    /\ MigrateCmd(p, "saveState",
                  [Logged("blockdev-mirror") EXCEPT !.job = TRUE],
                  <<"cancelJob">>)

\* saveStateHandle: the state transfer pauses the guest.
MigrateLiveSaveState(p) ==
    /\ At(p, "migrateSendLive", "saveState")
    /\ MigrateCmd(p, IF mig.shared THEN "completed" ELSE "preSwitchover",
                  [Logged("migrate") EXCEPT !.paused = TRUE], <<>>)

\* MigratePreSwitchover going on without the cancel of the mirror job.
MigrateLivePreSwitchoverKeepsJob(p) ==
    /\ At(p, "migrateSendLive", "preSwitchover")
    /\ MigrateCmd(p, "continue", Logged("wait pre-switchover"), <<>>)

MigrateLivePreSwitchover(p) ==
    /\ At(p, "migrateSendLive", "preSwitchover")
    /\ MigrateCmd(p, "jobCancel", Logged("wait pre-switchover"), <<>>)

MigrateLiveJobCancel(p) ==
    /\ At(p, "migrateSendLive", "jobCancel")
    /\ MigrateCmd(p, "continue",
                  [Logged("block-job-cancel") EXCEPT !.job = FALSE], <<>>)

MigrateLiveContinue(p) ==
    /\ At(p, "migrateSendLive", "continue")
    /\ MigrateCmd(p, "completed", Logged("migrate-continue"), <<>>)

MigrateLiveCompleted(p) ==
    /\ At(p, "migrateSendLive", "completed")
    /\ MigrateCmd(p, IF mig.cluster THEN "stop" ELSE "removeNBD",
                  Logged("wait completed"), <<>>)

\* An intra-cluster move stops the source instance.
MigrateLiveStop(p) ==
    /\ At(p, "migrateSendLive", "stop")
    /\ Push(p, NewFrame("Stop", "status"), "stopped")
    /\ mig' = Logged("Stop")
    /\ UNCHANGED <<ops, procVars, resVars, confVars, budgetVars, faults>>

MigrateLiveStopped(p) ==
    /\ At(p, "migrateSendLive", "stopped")
    /\ SetTop(p, [Top(p) EXCEPT !.pc = "unwind", !.err = Top(p).rv,
                    !.rev = IF Top(p).rv = "nil" THEN <<>> ELSE @])
    /\ UNCHANGED <<ops, procVars, resVars, confVars, cntVars, faults>>

\* Else the NBD target is removed, a failure of which is only logged.
MigrateLiveRemoveNBD(p) ==
    /\ At(p, "migrateSendLive", "removeNBD")
    /\ Goto(p, "resume")
    /\ mig' = IF QmpAnswers
              THEN [Logged("blockdev-del-nbd") EXCEPT !.nbd = FALSE]
              ELSE mig
    /\ UNCHANGED <<ops, procVars, resVars, confVars, budgetVars, faults>>

MigrateLiveResume(p) ==
    /\ At(p, "migrateSendLive", "resume")
    /\ MigrateCmd(p, "commit", [Logged("cont") EXCEPT !.paused = FALSE], <<>>)

\* The snapshot is merged back, and reverter.Success().
MigrateLiveCommit(p) ==
    /\ At(p, "migrateSendLive", "commit")
    /\ IF QmpAnswers
       THEN /\ SetTop(p, [Top(p) EXCEPT !.pc = "unwind", !.rev = <<>>])
            /\ mig' = [Logged("block-commit") EXCEPT !.snap = "committed"]
       ELSE /\ SetTop(p, [Top(p) EXCEPT !.pc = "unwind", !.err = "err"])
            /\ UNCHANGED mig
    /\ UNCHANGED <<ops, procVars, resVars, confVars, budgetVars, faults>>

\* reverter.Fail() of migrateSendLive: what the reverter holds runs last
\* first, each command with an effect when QEMU answers.
MigrateRevert(rev) ==
    LET a == IF Has(rev, "cancelJob") THEN [mig EXCEPT !.job = FALSE] ELSE mig
        b == IF Has(rev, "removeNBD") THEN [a EXCEPT !.nbd = FALSE] ELSE a
    IN IF Has(rev, "commit")
       THEN [b EXCEPT !.paused = FALSE, !.snap = "committed",
                      !.log = @ \o <<"cont", "block-commit">>]
       ELSE b

\* migrateSendLive returns: reverter.Fail(), then the deferred removal of the
\* snapshot's block node.
MigrateLiveUnwind(p) ==
    /\ At(p, "migrateSendLive", "unwind")
    /\ mig' = IF QmpAnswers
              THEN [MigrateRevert(Top(p).rev) EXCEPT !.node = FALSE]
              ELSE mig
    /\ Return(p, Top(p).err)
    /\ UNCHANGED <<ops, procVars, resVars, confVars, budgetVars, faults>>

----------------------------------------------------------------------------
\* MigrateSend (driver_qemu.go 7130-7403).

\* errgroup.WithContext and the two routines of MigrateSend started: the
\* control monitor waits for the target's message (ctl), the transfer
\* routine runs (xfer), the group has no error yet (first) and its context
\* is neither cancelled nor have the connections been disconnected.
GroupStarted(m) ==
    [m EXCEPT !.ctl = "waiting", !.xfer = "running", !.first = "none",
              !.cancelled = FALSE, !.disc = FALSE]

\* A routine of the group returns an error: the group keeps the first one
\* and cancels the context.
GroupError(m, routine) ==
    [m EXCEPT !.first = IF @ = "none" THEN routine ELSE @, !.cancelled = TRUE]

\* The transfer routine returns err.
TransferReturns(m, err) ==
    IF err = "nil" THEN [m EXCEPT !.xfer = "nil"]
    ELSE [GroupError(m, "transfer") EXCEPT !.xfer = "err"]

\* The negotiation: one failure path returns without op.Done(err).
MigratePrepare(p) ==
    /\ At(p, "MigrateSend", "prepare")
    /\ \/ /\ Goto(p, "transfer")
          /\ UNCHANGED <<ops, faults>>
       \/ /\ faults > 0 /\ faults' = faults - 1
          /\ \E explicit \in BOOLEAN :
               ops' = IF explicit THEN Done(ops, Top(p).op, "err") ELSE ops
          /\ Return(p, "err")
    /\ UNCHANGED <<procVars, resVars, confVars, cntVars>>

\* The transfer routine taking the QEMU to QEMU path whatever the target
\* answered.
MigrateTransferLiveOnly(p) ==
    /\ At(p, "MigrateSend", "transfer")
    /\ \E live, cluster, shared \in BOOLEAN :
         /\ shared => cluster
         /\ IF live
            THEN /\ Push(p, NewFrame("migrateSendLive", "connect"), "liveDone")
                 /\ \E sameName \in BOOLEAN :
                      /\ sameName => cluster
                      /\ mig' = [GroupStarted(mig) EXCEPT
                                   !.cluster = cluster, !.shared = shared,
                                   !.log = <<>>, !.live = live,
                                   !.sameName = sameName,
                                   !.persistOff = sameName,
                                   !.ref = sameName,
                                   !.wrote = FALSE, !.cleanup = "none"]
            ELSE /\ Goto(p, "copy")
                 /\ mig' = [GroupStarted(mig) EXCEPT
                              !.live = live, !.sameName = FALSE,
                              !.persistOff = FALSE, !.ref = FALSE,
                              !.wrote = FALSE, !.cleanup = "none"]
    /\ UNCHANGED <<ops, procVars, resVars, confVars, budgetVars, faults>>

\* The transfer routine: a live migration to a target that accepted QEMU to
\* QEMU state transfer runs migrateSendLive; to another target it stops the
\* instance statefully before the transfer. The request's Live is kept in
\* live.
MigrateTransfer(p) ==
    /\ At(p, "MigrateSend", "transfer")
    /\ \E live, cluster, shared \in BOOLEAN :
         /\ shared => cluster
         /\ IF live /\ mig.target
            THEN /\ Push(p, NewFrame("migrateSendLive", "connect"), "liveDone")
                 /\ \E sameName \in BOOLEAN :
                      /\ sameName => cluster
                      /\ mig' = [GroupStarted(mig) EXCEPT
                                   !.cluster = cluster, !.shared = shared,
                                   !.log = <<>>, !.live = live,
                                   !.sameName = sameName,
                                   !.persistOff = sameName,
                                   !.ref = sameName,
                                   !.wrote = FALSE, !.cleanup = "none"]
            ELSE /\ IF live
                    THEN Push(p, [NewFrame("Stop", "status") EXCEPT
                                    !.arg = TRUE], "stopped")
                    ELSE Goto(p, "copy")
                 /\ mig' = [GroupStarted(mig) EXCEPT
                              !.live = live, !.sameName = FALSE,
                              !.persistOff = FALSE, !.ref = FALSE,
                              !.wrote = FALSE, !.cleanup = "none"]
    /\ UNCHANGED <<ops, procVars, resVars, confVars, budgetVars, faults>>

\* The control monitor: it returns the context's error once the context is
\* cancelled, or what the target's message says; a message that cannot be
\* read or that reports a failure is an error.
MigrateControlMonitor ==
    /\ mig.ctl = "waiting"
    /\ \/ /\ mig.cancelled
          /\ mig' = [mig EXCEPT !.ctl = "cancelled"]
          /\ UNCHANGED faults
       \/ /\ mig' = [mig EXCEPT !.ctl = "success"]
          /\ UNCHANGED faults
       \/ /\ faults > 0 /\ faults' = faults - 1
          /\ mig' = [GroupError(mig, "control") EXCEPT !.ctl = "failure"]
    /\ UNCHANGED <<stack, ret, ops, procVars, resVars, confVars, budgetVars>>

\* The routine that waits for the context to be cancelled and disconnects
\* the migration connections.
MigrateDisconnect ==
    /\ mig.ctl # "none" /\ mig.cancelled /\ ~mig.disc
    /\ mig' = [mig EXCEPT !.disc = TRUE]
    /\ UNCHANGED <<stack, ret, ops, procVars, resVars, confVars, budgetVars,
                   faults>>

\* The transfer routine returns what migrateSendLive returned, and its
\* deferred instanceRefClear runs.
MigrateLiveDone(p) ==
    /\ At(p, "MigrateSend", "liveDone")
    /\ SetTop(p, [Top(p) EXCEPT !.pc = "wait", !.err = Top(p).rv])
    /\ mig' = [TransferReturns(mig, Top(p).rv) EXCEPT !.ref = FALSE]
    /\ UNCHANGED <<ops, procVars, resVars, confVars, budgetVars, faults>>

MigrateStopped(p) ==
    /\ At(p, "MigrateSend", "stopped")
    /\ IF Top(p).rv = "nil"
       THEN Goto(p, "copy") /\ UNCHANGED mig
       ELSE /\ SetTop(p, [Top(p) EXCEPT !.pc = "wait", !.err = "err"])
            /\ mig' = TransferReturns(mig, "err")
    /\ UNCHANGED <<ops, procVars, resVars, confVars, budgetVars, faults>>

\* The storage driver's MigrateInstance, which ends the transfer routine.
MigrateCopy(p) ==
    /\ At(p, "MigrateSend", "copy")
    /\ \/ /\ SetTop(p, [Top(p) EXCEPT !.pc = "wait"])
          /\ mig' = TransferReturns(mig, "nil")
          /\ UNCHANGED faults
       \/ /\ faults > 0 /\ faults' = faults - 1
          /\ SetTop(p, [Top(p) EXCEPT !.pc = "wait", !.err = "err"])
          /\ mig' = TransferReturns(mig, "err")
    /\ UNCHANGED <<ops, procVars, resVars, confVars, budgetVars>>

\* The statements of the transfer routine that use the migration
\* connections.
MigrateConnections ==
    {"storage", "saveState", "preSwitchover", "completed", "copy"}

\* A statement of the transfer routine fails on a connection that has been
\* disconnected.
MigrateConnLost(p) ==
    /\ mig.disc
    /\ Depth(p) > 0 /\ Top(p).pc \in MigrateConnections
    /\ \/ /\ Top(p).fn = "migrateSendLive"
          /\ SetTop(p, [Top(p) EXCEPT !.pc = "unwind", !.err = "err"])
          /\ UNCHANGED mig
       \/ /\ Top(p).fn = "MigrateSend"
          /\ SetTop(p, [Top(p) EXCEPT !.pc = "wait", !.err = "err"])
          /\ mig' = TransferReturns(mig, "err")
    /\ UNCHANGED <<ops, procVars, resVars, confVars, budgetVars, faults>>

\* MigrateSend without the error of the group: it returns what the transfer
\* routine returned.
MigrateWaitTransferOnly(p) ==
    /\ At(p, "MigrateSend", "wait")
    /\ mig.ctl # "waiting"
    /\ ops' = Done(ops, Top(p).op, IF Top(p).err = "nil" THEN "ok" ELSE "err")
    /\ Return(p, Top(p).err)
    /\ mig' = [mig EXCEPT !.cancelled = TRUE, !.disc = TRUE]
    /\ UNCHANGED <<procVars, resVars, confVars, budgetVars, faults>>

\* g.Wait: when both routines have returned it returns the first error of
\* the group and cancels the context, on which the connections are
\* disconnected; MigrateSend marks its lock done with the error and returns
\* it.
MigrateWait(p) ==
    /\ At(p, "MigrateSend", "wait")
    /\ mig.ctl # "waiting"
    /\ LET err == IF mig.first = "none" THEN "nil" ELSE "err" IN
         /\ ops' = Done(ops, Top(p).op, IF err = "nil" THEN "ok" ELSE "err")
         /\ Return(p, err)
    /\ mig' = [mig EXCEPT !.cancelled = TRUE, !.disc = TRUE]
    /\ UNCHANGED <<procVars, resVars, confVars, budgetVars, faults>>

----------------------------------------------------------------------------
\* The callers and the environment.

\* The operations a caller may ask for.
Operations == {"start", "Stop", "Shutdown", "ConsoleLog", "Update", "Delete",
               "Snapshot", "Restore", "MigrateSend"}

\* The first statement of each.
Entry(fn) ==
    CASE fn = "start" -> "validate"
      [] fn \in {"Stop", "Shutdown"} -> "status"
      [] fn = "Snapshot" -> "begin"
      [] fn = "Restore" -> "create"
      [] OTHER -> "lock"

\* The callers are interchangeable: a caller makes its first call after the
\* callers before it made theirs.
CallWith(p, fns, arg) ==
    /\ p \in Callers /\ Depth(p) = 0
    /\ \A q \in Callers : q < p => Depth(q) > 0 \/ ret[q] # <<>>
    /\ exists
    /\ calls > 0
    /\ calls' = calls - 1
    /\ UNCHANGED <<poweroffs, hostVars>>
    /\ \E fn \in fns :
         /\ fn = "Restore" => snaps > 0
         /\ stack' = [stack EXCEPT ![p] =
                         <<[NewFrame(fn, Entry(fn)) EXCEPT !.arg = arg]>>]
    /\ UNCHANGED <<ret, ops, procVars, resVars, confVars, faults>>

\* A call that is not stateful.
Call(p, fns) == CallWith(p, fns, FALSE)

\* The operations the callers call where the stopping, the restarting and
\* the snapshots of an instance are looked at.
StopOperations == {"Stop", "Shutdown"}
RestartOperations == {"start", "Stop"}
SnapshotOperations == {"Snapshot", "Restore"}

\* Start(true): a stateful start.
CallStateful(p) == CallWith(p, {"start"}, TRUE)

\* QEMU stops answering on its monitor socket.
QemuHang ==
    /\ qemu = "alive" /\ qmpOK
    /\ faults > 0
    /\ faults' = faults - 1
    /\ qmpOK' = FALSE
    /\ UNCHANGED <<stack, ret, ops, qemu, mon, onDisc, events, resVars,
                   confVars, cntVars>>

\* The guest powers off.
GuestPoweroff ==
    /\ qemu = "alive" /\ qmpOK
    /\ poweroffs > 0
    /\ poweroffs' = poweroffs - 1
    /\ QemuShutdown
    /\ UNCHANGED <<stack, ret, ops, resVars, confVars, hostVars, calls,
                   faults>>

\* The guest resets: QEMU, run with -no-reboot, shuts down with the reason
\* guest-reset.
GuestReset ==
    /\ qemu = "alive" /\ qmpOK
    /\ poweroffs > 0
    /\ poweroffs' = poweroffs - 1
    /\ qemu' = "exiting"
    /\ events' = IF mon THEN Append(events, "reboot") ELSE events
    /\ onDisc' = IF mon THEN FALSE ELSE onDisc
    /\ UNCHANGED <<qmpOK, mon>>
    /\ UNCHANGED <<stack, ret, ops, resVars, confVars, hostVars, calls,
                   faults>>

\* The events QEMU sends while the guest runs.
GuestEvents == {"agent", "rtc", "resume", "powerdown"}

\* QEMU sends an event that is not SHUTDOWN.
GuestEvent ==
    /\ qemu = "alive" /\ qmpOK /\ mon
    /\ poweroffs > 0
    /\ poweroffs' = poweroffs - 1
    /\ \E e \in GuestEvents : events' = Append(events, e)
    /\ UNCHANGED <<stack, ret, ops, qemu, qmpOK, mon, onDisc, resVars,
                   confVars, hostVars, calls, faults>>

\* Another VM of the host takes or releases a context ID, while the
\* instance is stopped and no call is in progress.
HostChange ==
    /\ qemu = "none"
    /\ \A p \in Procs : Depth(p) = 0
    /\ \E c \in HostCIDs :
         busyCIDs' = IF c \in busyCIDs THEN busyCIDs \ {c}
                     ELSE busyCIDs \cup {c}
    /\ UNCHANGED <<stack, ret, ops, procVars, resVars, confVars, machine, mig,
                   extVars, calls, poweroffs, faults>>

\* The machine types the releases of QEMU report.
Machines == {1, 2}

\* QEMU is upgraded while the instance is stopped: the new release reports
\* another machine type.
QemuUpgrade ==
    /\ qemu = "none"
    /\ \A p \in Procs : Depth(p) = 0
    /\ \E m \in Machines : m > machine /\ machine' = m
    /\ UNCHANGED <<stack, ret, ops, procVars, resVars, confVars, busyCIDs, mig,
                   extVars, calls, poweroffs, faults>>

\* A QEMU that is shutting down exits.
QemuExit ==
    /\ qemu = "exiting"
    /\ QemuGone
    /\ UNCHANGED <<stack, ret, ops, resVars, confVars, cntVars, faults>>

\* QEMU dies.
QemuCrash ==
    /\ qemu = "alive"
    /\ faults > 0
    /\ faults' = faults - 1
    /\ QemuGone
    /\ UNCHANGED <<stack, ret, ops, resVars, confVars, cntVars>>

----------------------------------------------------------------------------
\* generateQemuConfig: the bus allocations (driver_qemu.go 3644-3998).

\* The functions of a slot that devices of one multi-function group share.
BusFunctions == 8

\* No configuration is being generated.
NoBus == [pc |-> "none"]

\* qemuNewBus: no port is allocated and no multi-function group is open.
qemuNewBus(name) ==
    [name |-> name, ports |-> 0, direct |-> 0,
     group |-> [g \in {"generic", "9p"} |-> [port |-> 0, fn |-> 0]],
     last |-> 0]

\* bus.allocate: a device of no group gets the next port; a device of a
\* group gets the next function of the group's port, and the next port when
\* it is the first of its group or the port's functions are used up. last
\* is the ordinal of the port the device is on.
allocate(a, g) ==
    IF g = "none"
    THEN [a EXCEPT !.ports = @ + 1, !.last = a.ports + 1]
    ELSE IF a.group[g].port # 0 /\ a.group[g].fn < BusFunctions - 1
    THEN [a EXCEPT !.group[g].fn = @ + 1, !.last = a.group[g].port]
    ELSE [a EXCEPT !.ports = @ + 1, !.last = a.ports + 1,
                   !.group[g] = [port |-> a.ports + 1, fn |-> 0]]

\* bus.allocateDirect: an address on the root bus, no port.
allocateDirect(a) == [a EXCEPT !.direct = @ + 1, !.last = 0]

\* The bus of an architecture, and whether the architecture has UEFI.
BusName(arch) == IF arch = "ppc64le" THEN "pci" ELSE "pcie"
architectureSupportsUEFI(arch) == arch \in {"x86_64", "aarch64"}

\* The allocations generateQemuConfig makes for the fixed devices of a guest
\* with configuration c, in order: "direct" for allocateDirect, else the
\* multi-function group.
FixedAllocations(c) ==
    LET Opt(cond, seq) == IF cond THEN seq ELSE <<>>
        Seabios == IF c.csm THEN <<"none", "direct">> ELSE <<"none">>
    IN  Opt(c.iommu /\ architectureSupportsUEFI(c.arch), <<"direct">>)
        \o <<"generic", "generic", "generic", "generic">>
        \o Opt(~c.windows, <<"generic">>)
        \o <<"generic">>
        \o Opt(c.arch # "s390x", <<"generic">>)
        \o Seabios
        \o Opt(~c.windows, <<"9p">> \o Opt(c.agent, <<"9p">>))
        \o Seabios

\* generateQemuConfig is called for a guest with configuration c and the
\* run configurations runConfs of its devices, in the devices' sort order.
ConfigBegin(c, runConfs) ==
    /\ bus.pc = "none"
    /\ bus' = [pc |-> "fixed", conf |-> c, todo |-> FixedAllocations(c),
               devs |-> runConfs, a |-> qemuNewBus(BusName(c.arch)),
               fixed |-> 0, nic |-> 0]

\* The next allocation for a fixed device; after the last, the ports the
\* fixed devices have consumed are known.
ConfigFixed ==
    /\ bus.pc = "fixed"
    /\ IF bus.todo = <<>>
       THEN bus' = [bus EXCEPT !.pc = "devices", !.fixed = bus.a.ports]
       ELSE bus' = [bus EXCEPT
                      !.todo = Tail(@),
                      !.a = IF Head(bus.todo) = "direct"
                            THEN allocateDirect(@)
                            ELSE allocate(@, Head(bus.todo))]

\* The next device: a drive on the nvme or virtio-blk bus and a NIC that is
\* not on the USB bus get a port each; nic is the port of the first NIC.
ConfigDevice ==
    /\ bus.pc = "devices"
    /\ IF bus.devs = <<>>
       THEN bus' = [bus EXCEPT !.pc = "done"]
       ELSE LET ported == Head(bus.devs) \in {"nic", "drive-nvme"}
                a == IF ported THEN allocate(bus.a, "none") ELSE bus.a
            IN  bus' = [bus EXCEPT
                          !.devs = Tail(@), !.a = a,
                          !.nic = IF Head(bus.devs) = "nic" /\ bus.nic = 0
                                  THEN a.last ELSE @]

----------------------------------------------------------------------------
\* Update: the device diff and the checks made before the changes are
\* stored (driver_qemu.go 5944-6398).

\* No Update is in progress.
NoUpdate == [pc |-> "none"]

\* A key a device or a configuration does not have.
Absent == "absent"

\* The keys of a device, and a device that is not there.
DeviceKeys == {"type", "size", "initial.uid"}
NoDevice == [k \in DeviceKeys |-> Absent]

\* strings.HasPrefix(k, "initial.")
IsInitial(k) == k \in {"initial.uid"}

\* The fields of a device that can be updated while the device stays.
UpdatableFields == {"size"}

\* Devices.Update: the devices removed, added and updated, and the keys that
\* differ between the old and the new devices; a device whose fields differ
\* in updatable fields only is updated, any other is removed and added.
DevicesUpdate(old, new) ==
    LET rm == {n \in DOMAIN old : old[n] # NoDevice /\ old[n] # new[n]}
        add == {n \in DOMAIN new : new[n] # NoDevice /\ old[n] # new[n]}
        DiffKeys(n) == {k \in DeviceKeys : old[n][k] # new[n][k]}
        updt == {n \in rm \cap add : DiffKeys(n) \subseteq UpdatableFields}
    IN  [rm |-> rm \ updt, add |-> add \ updt, updt |-> updt,
         keys |-> UNION {DiffKeys(n) : n \in add}]

\* The check of the initial configuration accepting every request.
InitialConfigAccepted(old, new, diff) == FALSE

\* The check of the initial configuration of the devices: whether Update
\* returns its error. It looks at the keys of the added devices.
InitialConfigError(old, new, diff) ==
    /\ \E k \in diff.keys : IsInitial(k)
    /\ \E n \in diff.add : \E k \in DeviceKeys :
         /\ new[n][k] # Absent /\ IsInitial(k)
         /\ \/ n \notin diff.rm
            \/ old[n][k] = Absent
            \/ new[n][k] # "" /\ new[n][k] # old[n][k]

\* The configuration keys of the requests, and those that can be changed on
\* a running VM.
ConfigKeys == {"limits.memory", "user.note", "raw.qemu"}
isLiveUpdatable(key) == key \in {"limits.memory", "user.note"}

\* The keys whose values differ between two configurations.
changedConfig(old, new) == {k \in ConfigKeys : old[k] # new[k]}

\* Update is called with a request: the instance's fields are set to the
\* request's, and a failure will set them back.
UpdateBegin(args) ==
    /\ upd.pc = "none"
    /\ upd' = [pc |-> "initial", running |-> args.running,
               old |-> args.old, new |-> args.new,
               inst |-> args.new, db |-> args.old, vm |-> args.old,
               diff |-> DevicesUpdate(args.old.devices, args.new.devices),
               err |-> "nil"]

\* Update returns err: reverter.Fail() sets the instance's fields back.
UpdateFails(err) ==
    upd' = [upd EXCEPT !.pc = "done", !.err = err, !.inst = upd.old]

UpdateInitial ==
    /\ upd.pc = "initial"
    /\ IF InitialConfigError(upd.old.devices, upd.new.devices, upd.diff)
       THEN UpdateFails("initial")
       ELSE upd' = [upd EXCEPT !.pc = "devices"]

\* devicesUpdate: the removed devices are stopped, the added ones started
\* and the updated ones updated, on a running VM in the VM; when it fails
\* it has put back what it changed.
UpdateDevices ==
    /\ upd.pc = "devices"
    /\ \/ upd' = [upd EXCEPT
                    !.pc = "live",
                    !.vm.devices = IF upd.running THEN upd.new.devices ELSE @]
       \/ /\ upd.diff.rm \cup upd.diff.add \cup upd.diff.updt # {}
          /\ UpdateFails("devices")

\* On a running VM only certain keys can be changed: Update returns an error
\* when another key has changed.
UpdateLive ==
    /\ upd.pc = "live"
    /\ IF /\ upd.running
          /\ \E key \in changedConfig(upd.old.config, upd.new.config) :
                ~isLiveUpdatable(key)
       THEN UpdateFails("live")
       ELSE upd' = [upd EXCEPT !.pc = "store"]

\* The changed keys are applied to a running VM and the instance's fields
\* are stored.
UpdateStore ==
    /\ upd.pc = "store"
    /\ upd' = [upd EXCEPT
                 !.pc = "done",
                 !.vm.config = IF upd.running THEN upd.new.config ELSE @,
                 !.db = upd.new]

----------------------------------------------------------------------------
\* setCPUs (driver_qemu.go 9875-10003).

\* The CPUs query-hotpluggable-cpus lists, in its order: the first is the
\* fixed CPU the VM was launched with, the others can be plugged.
MaxCPUs == 4
CPUs == 1..MaxCPUs
FixedCPU == 1

\* No VM whose CPUs are set.
NoCPUs == [pc |-> "none"]

\* No VM whose devices are started or stopped.
NoDevices == [pc |-> "none"]

\* No function is being computed.
NoEval == [pc |-> "none"]

\* No snapshot is being taken.
NoSnapshotCall == [pc |-> "none"]

\* No Restore of an instance that may be ephemeral is in progress.
NoRestoreCall == [pc |-> "none"]

\* No MigrateReceive is in progress.
NoReceive == [pc |-> "none"]

\* No hot-detach is in progress.
NoDetach == [pc |-> "none"]

\* No live update of limits.memory is in progress.
NoMemoryUpdate == [pc |-> "none"]

\* The operations that are modelled on their own are not in progress, but
\* for the one named.
OthersIdle(own) ==
    /\ IF own = "bus" THEN TRUE ELSE bus = NoBus
    /\ IF own = "upd" THEN TRUE ELSE upd = NoUpdate
    /\ IF own = "cpu" THEN TRUE ELSE cpu = NoCPUs
    /\ IF own = "dev" THEN TRUE ELSE dev = NoDevices
    /\ IF own = "eval" THEN TRUE ELSE eval = NoEval
    /\ IF own = "snap" THEN TRUE ELSE snap = NoSnapshotCall
    /\ IF own = "rst" THEN TRUE ELSE rst = NoRestoreCall
    /\ IF own = "recv" THEN TRUE ELSE recv = NoReceive
    /\ IF own = "det" THEN TRUE ELSE det = NoDetach
    /\ IF own = "mem" THEN TRUE ELSE mem = NoMemoryUpdate

\* The first n elements of the set c of CPUs, in the order of the list.
RECURSIVE FirstCPUs(_, _)
FirstCPUs(c, n) ==
    IF n = 0 \/ c = {} THEN <<>>
    ELSE LET x == CHOOSE x \in c : \A y \in c : x <= y
         IN  <<x>> \o FirstCPUs(c \ {x}, n - 1)

\* setCPUs returns err.
SetCPUsReturn(err) == cpu' = [cpu EXCEPT !.pc = "done", !.err = err]

\* setCPUs(count) up to its loops: the hotplugged CPUs are those with a
\* qom-path under /machine/peripheral, the reserved ones these and the fixed
\* one; todo are the CPUs to add or to remove.
SetCPUsBegin(count) ==
    /\ cpu.pc = "idle"
    /\ LET availableCPUs == CPUs \ (cpu.plugged \cup {FixedCPU})
           hotpluggedCPUs == cpu.plugged
           totalReservedCPUs == Cardinality(hotpluggedCPUs) + 1
           c == [cpu EXCEPT !.count = count]
       IN  IF count = 0 THEN cpu' = [c EXCEPT !.pc = "done"]
           ELSE \/ /\ cpu.faults > 0
                   /\ cpu' = [c EXCEPT !.pc = "done", !.err = "query",
                                       !.faults = @ - 1]
                \/ IF count = totalReservedCPUs
                   THEN cpu' = [c EXCEPT !.pc = "done"]
                   ELSE IF count > totalReservedCPUs
                   THEN IF \/ count > Cardinality(CPUs)
                           \/ count - totalReservedCPUs
                                > Cardinality(availableCPUs)
                        THEN cpu' = [c EXCEPT !.pc = "done", !.err = "count"]
                        ELSE cpu' = [c EXCEPT
                                 !.pc = "add",
                                 !.todo = FirstCPUs(availableCPUs,
                                              count - totalReservedCPUs)]
                   ELSE IF totalReservedCPUs - count
                            > Cardinality(hotpluggedCPUs)
                        THEN cpu' = [c EXCEPT !.pc = "done", !.err = "count"]
                        ELSE cpu' = [c EXCEPT
                                 !.pc = "remove",
                                 !.todo = FirstCPUs(hotpluggedCPUs,
                                              totalReservedCPUs - count)]

\* The next monitor.AddDevice of the loop: when it fails setCPUs returns
\* through its reverter.
SetCPUsAdd ==
    /\ cpu.pc = "add"
    /\ IF cpu.todo = <<>>
       THEN cpu' = [cpu EXCEPT !.pc = "post"]
       ELSE \/ cpu' = [cpu EXCEPT
                        !.plugged = @ \cup {Head(cpu.todo)},
                        !.todo = Tail(@), !.cmds = @ + 1,
                        !.rev = Append(@, Head(cpu.todo))]
            \/ /\ cpu.faults > 0
               /\ cpu' = [cpu EXCEPT !.pc = "revert", !.err = "device",
                                     !.cmds = @ + 1, !.faults = @ - 1]

\* The next monitor.RemoveDevice of the loop.
SetCPUsRemove ==
    /\ cpu.pc = "remove"
    /\ IF cpu.todo = <<>>
       THEN cpu' = [cpu EXCEPT !.pc = "post"]
       ELSE \/ cpu' = [cpu EXCEPT
                        !.plugged = @ \ {Head(cpu.todo)},
                        !.todo = Tail(@), !.cmds = @ + 1,
                        !.rev = Append(@, Head(cpu.todo))]
            \/ /\ cpu.faults > 0
               /\ cpu' = [cpu EXCEPT !.pc = "revert", !.err = "device",
                                     !.cmds = @ + 1, !.faults = @ - 1]

\* reverter.Fail() leaving the CPUs as they are.
SetCPUsRevertNothing ==
    /\ cpu.pc = "revert"
    /\ cpu' = [cpu EXCEPT !.pc = "done", !.rev = <<>>]

\* reverter.Fail(): the CPUs changed so far are removed, or added, again,
\* the last one first.
SetCPUsRevert ==
    /\ cpu.pc = "revert"
    /\ IF cpu.rev = <<>>
       THEN cpu' = [cpu EXCEPT !.pc = "done"]
       ELSE LET x == cpu.rev[Len(cpu.rev)] IN
            cpu' = [cpu EXCEPT
                      !.rev = SubSeq(@, 1, Len(@) - 1),
                      !.plugged = IF x \in cpu.plugged THEN @ \ {x}
                                  ELSE @ \cup {x}]

\* reverter.Success() and postCPUHotplug, whose error setCPUs returns.
SetCPUsPost ==
    /\ cpu.pc = "post"
    /\ \/ cpu' = [cpu EXCEPT !.pc = "done", !.rev = <<>>]
       \/ /\ cpu.faults > 0
          /\ cpu' = [cpu EXCEPT !.pc = "done", !.rev = <<>>, !.err = "post",
                                !.faults = @ - 1]

----------------------------------------------------------------------------
\* The states the behaviours start from.

Idle ==
    /\ stack = [p \in Procs |-> <<>>]
    /\ ret = [p \in Procs |-> <<>>]
    /\ ops = <<>>
    /\ events = <<>>
    /\ fds = 0
    /\ exists = TRUE
    /\ nextUUID = 2
    /\ OthersIdle("none")

\* An instance on an architecture with UEFI whose NVRAM vars file is set up
\* and whose volatile.apply_nvram is empty.
NvramSetUp == [apply |-> "", file |-> TRUE, uefi |-> TRUE]

\* The volatile keys an instance that never started may have, and those a
\* start has set.
NeverStarted == {[uuid |-> 0, vsock |-> 0, def |-> 0],
                 [uuid |-> 1, vsock |-> 0, def |-> 0]}
StartedBefore == [uuid |-> 1, vsock |-> 3, def |-> 1]

\* The instance is stopped.
Stopped ==
    /\ qemu = "none" /\ qmpOK = TRUE /\ mon = FALSE /\ onDisc = FALSE
    /\ pidFile = FALSE
    /\ mounted = FALSE /\ apparmor = FALSE /\ devs = 0 /\ cfgDrive = "none"
    /\ qemuCID = 0

\* What a start that succeeded leaves outside the daemon.
Started ==
    /\ qemu = "alive" /\ qmpOK = TRUE
    /\ pidFile = TRUE
    /\ mounted = TRUE /\ apparmor = TRUE /\ devs = NumDevices
    /\ cfgDrive = "mounted"
    /\ qemuCID = StartedBefore.vsock

\* The instance is running, as a start that succeeded leaves it.
Running == Started /\ mon = TRUE /\ onDisc = TRUE

\* The instance is running and the daemon has been restarted since the
\* start: no monitor is connected.
Detached == Started /\ mon = FALSE /\ onDisc = FALSE

\* The steps of a call, by operation.
LockSteps(p) == Acquire(p) \/ LockWait(p)

StartSteps(p) ==
    \/ StartValidate(p) \/ StartStep(p)
    \/ StartPidfile(p) \/ StartMount(p) \/ StartVsock(p) \/ StartNvram(p)
    \/ StartVolatileSet(p) \/ StartDevice(p) \/ StartConfigDriveDir(p)
    \/ StartConfigDriveMount(p) \/ StartStateful(p) \/ StartApparmor(p)
    \/ StartLaunch(p)
    \/ StartPid(p) \/ StartQmpConnect(p) \/ StartDefinition(p)
    \/ StartMonitorSetup(p) \/ StartPostStart(p)
    \/ StartFinish(p) \/ StartUnwind(p)

\* The steps of start that only a failure leads to.
StartFailSteps(p) == StartFail(p) \/ StartStopped(p)

StopSteps(p) ==
    \/ ConsoleLogRead(p)
    \/ StopStatus(p) \/ StopConnect(p) \/ StopQuit(p)
    \/ StopDisconnect(p) \/ StopWait(p)

OnStopSteps(p) ==
    \/ OnStopSetup(p) \/ OnStopPidWait(p) \/ OnStopCleanup(p)
    \/ OnStopUnmount(p) \/ OnStopApparmor(p) \/ OnStopRestart(p)
    \/ OnStopReturn(p)

RestartSteps(p) == OnStopReboot(p) \/ OnStopStarted(p)

ShutdownSteps(p) ==
    \/ ShutdownStatus(p) \/ ShutdownConsole(p) \/ ShutdownConnect(p)
    \/ ShutdownPowerdown(p) \/ ShutdownWait(p)

RestoreSteps(p) ==
    \/ RestoreCreate(p) \/ RestoreRunning(p) \/ RestoreStopped(p)
    \/ RestoreSnapshot(p) \/ RestoreUpdated(p) \/ RestoreStarted(p)

MigrateSteps(p) ==
    \/ MigratePrepare(p) \/ MigrateTransfer(p) \/ MigrateStopped(p)
    \/ MigrateCopy(p) \/ MigrateWait(p)

MigrateLiveSteps(p) ==
    \/ MigrateLiveDone(p) \/ MigrateLiveConnect(p) \/ MigrateLiveFail(p)
    \/ MigrateLiveCapabilities(p) \/ MigrateLiveSnapshotNode(p)
    \/ MigrateLiveSnapshot(p) \/ MigrateLiveStorage(p) \/ MigrateLiveNBD(p)
    \/ MigrateLiveMirror(p) \/ MigrateLiveSaveState(p)
    \/ MigrateLivePreSwitchover(p) \/ MigrateLiveJobCancel(p)
    \/ MigrateLiveContinue(p) \/ MigrateLiveCompleted(p)
    \/ MigrateLiveStop(p) \/ MigrateLiveStopped(p)
    \/ MigrateLiveRemoveNBD(p) \/ MigrateLiveResume(p)
    \/ MigrateLiveCommit(p) \/ MigrateLiveUnwind(p)

\* An instance with a snapshot, stopped or running, under every operation
\* of two callers, where no statement fails and neither the guest nor QEMU
\* stops by itself.
Init ==
    /\ Idle
    /\ Stopped \/ Running
    /\ volatile = StartedBefore
    /\ snaps = 1
    /\ autorestart = FALSE /\ ephemeral = FALSE
    /\ busyCIDs = {} /\ machine = 1 /\ mig = NoMigration
    /\ calls = MaxCalls /\ poweroffs = 0 /\ faults = 0
    /\ stateful = FALSE
    /\ nvram = NvramSetUp
    /\ snapConf = IF snaps = 0 THEN NoSnapshot ELSE volatile

Next ==
    \/ \E p \in Procs :
         \/ Call(p, Operations)
         \/ LockSteps(p) \/ StartSteps(p) \/ StopSteps(p) \/ StopInline(p)
         \/ OnStopSteps(p) \/ OnStopSetupWait(p)
         \/ ShutdownSteps(p)
         \/ UpdateApply(p) \/ DeleteRun(p)
         \/ SnapshotBegin(p) \/ SnapshotCommon(p)
         \/ RestoreSteps(p) \/ MigrateSteps(p)
    \/ HandleEvent \/ QemuExit \/ MigrateControlMonitor

Spec == Init /\ [][Next]_vars

\* A stopped instance, started before or never, under Start, where one
\* statement may fail or QEMU may crash or hang.
InitStart ==
    /\ Idle
    /\ Stopped
    /\ volatile \in NeverStarted \cup {StartedBefore}
    /\ snaps = 0
    /\ autorestart = FALSE /\ ephemeral = FALSE
    /\ busyCIDs \in SUBSET HostCIDs /\ machine = 1 /\ mig = NoMigration
    /\ calls = MaxCalls /\ poweroffs = 0 /\ faults = MaxFaults
    /\ stateful = FALSE
    /\ nvram = NvramSetUp
    /\ snapConf = IF snaps = 0 THEN NoSnapshot ELSE volatile

NextStart ==
    \/ \E p \in Procs :
         \/ Call(p, {"start"})
         \/ LockSteps(p) \/ StartSteps(p) \/ StartFailSteps(p) \/ StopSteps(p)
         \/ OnStopSteps(p)
    \/ HandleEvent \/ QemuExit \/ QemuCrash \/ QemuHang

SpecStart == InitStart /\ [][NextStart]_vars

\* A running instance under Stop and Shutdown, where one statement may fail
\* or QEMU may crash or hang.
InitStop ==
    /\ Idle
    /\ Running \/ Detached
    /\ volatile = StartedBefore
    /\ snaps = 0
    /\ autorestart = FALSE /\ ephemeral = FALSE
    /\ busyCIDs = {} /\ machine = 1 /\ mig = NoMigration
    /\ calls = MaxCalls /\ poweroffs = 0 /\ faults = MaxFaults
    /\ stateful = FALSE
    /\ nvram = NvramSetUp
    /\ snapConf = IF snaps = 0 THEN NoSnapshot ELSE volatile

NextStop ==
    \/ \E p \in Procs :
         \/ Call(p, StopOperations)
         \/ LockSteps(p) \/ StopSteps(p) \/ StopInline(p)
         \/ OnStopSteps(p) \/ OnStopSetupWait(p)
         \/ ShutdownSteps(p)
    \/ HandleEvent \/ QemuExit \/ QemuCrash \/ QemuHang

SpecStop == InitStop /\ [][NextStop]_vars

\* A running instance under MigrateSend to a target that accepts QEMU to
\* QEMU state transfer or does not, where one statement may fail.
InitMigrate ==
    /\ Idle
    /\ Running
    /\ volatile = StartedBefore
    /\ snaps = 0
    /\ autorestart = FALSE /\ ephemeral = FALSE
    /\ busyCIDs = {} /\ machine = 1
    /\ mig \in {[NoMigration EXCEPT !.target = t] : t \in BOOLEAN}
    /\ calls = MaxCalls /\ poweroffs = 0 /\ faults = MaxFaults
    /\ stateful = FALSE
    /\ nvram = NvramSetUp
    /\ snapConf = IF snaps = 0 THEN NoSnapshot ELSE volatile

NextMigrate ==
    \/ \E p \in Procs :
         \/ Call(p, {"MigrateSend"})
         \/ LockSteps(p) \/ MigrateSteps(p) \/ MigrateLiveSteps(p)
         \/ MigrateConnLost(p)
         \/ StopSteps(p) \/ OnStopSteps(p)
    \/ HandleEvent \/ QemuExit \/ MigrateControlMonitor \/ MigrateDisconnect

SpecMigrate == InitMigrate /\ [][NextMigrate]_vars

\* The calls of a behaviour that restarts the instance.
RestartCalls == 3

\* A stopped instance under Start and Stop, on a host where other VMs take
\* and release context IDs and QEMU is upgraded, and no statement fails.
InitRestart ==
    /\ Idle
    /\ Stopped
    /\ volatile \in NeverStarted \cup {StartedBefore}
    /\ snaps = 0
    /\ autorestart = FALSE /\ ephemeral = FALSE
    /\ busyCIDs = {} /\ machine = 1 /\ mig = NoMigration
    /\ calls = RestartCalls /\ poweroffs = 0 /\ faults = 0
    /\ stateful = FALSE
    /\ nvram = NvramSetUp
    /\ snapConf = IF snaps = 0 THEN NoSnapshot ELSE volatile

NextRestart ==
    \/ \E p \in Procs :
         \/ Call(p, RestartOperations)
         \/ LockSteps(p) \/ StartSteps(p) \/ StopSteps(p)
         \/ OnStopSteps(p)
    \/ HandleEvent \/ QemuExit \/ HostChange \/ QemuUpgrade

SpecRestart == InitRestart /\ [][NextRestart]_vars

\* A stopped instance, with or without a saved state, under Start, stateful
\* or not, and Stop, while QEMU is upgraded; no statement fails.
InitStateful ==
    /\ Idle
    /\ Stopped
    /\ volatile \in {StartedBefore, [uuid |-> 1, vsock |-> 0, def |-> 0]}
    /\ snaps = 0
    /\ autorestart = FALSE /\ ephemeral = FALSE
    /\ busyCIDs = {} /\ machine = 1 /\ mig = NoMigration
    /\ calls = RestartCalls /\ poweroffs = 0 /\ faults = 0
    /\ stateful \in BOOLEAN
    /\ nvram = NvramSetUp
    /\ snapConf = IF snaps = 0 THEN NoSnapshot ELSE volatile
    /\ stateful => volatile = StartedBefore

NextStateful ==
    \/ \E p \in Procs :
         \/ Call(p, RestartOperations) \/ CallStateful(p)
         \/ LockSteps(p) \/ StartSteps(p) \/ StopSteps(p)
         \/ OnStopSteps(p)
    \/ HandleEvent \/ QemuExit \/ QemuUpgrade

SpecStateful == InitStateful /\ [][NextStateful]_vars

----------------------------------------------------------------------------
\* Properties of the operation lock.

\* The operations that ask for an operation lock, and the statements of each
\* that come before it has one.
LockTaking == {"start", "Stop", "Shutdown", "Update", "Delete", "MigrateSend",
               "Restore"}

PreLock(fn) ==
    CASE fn = "start" -> {"validate", "lock", "lockwait"}
      [] fn = "Stop" -> {"status", "lock", "lockwait"}
      [] fn = "Shutdown" -> {"status", "console", "lock", "lockwait"}
      [] fn = "Restore" -> {"create", "recreate"}
      [] OTHER -> {"lock", "lockwait"}

\* A call that proceeds: it is past its lock request and its lock is live.
Proceeds(f) ==
    /\ f.fn \in LockTaking
    /\ f.pc \notin PreLock(f.fn)
    /\ f.op = 0 \/ ops[f.op].res = "live"

\* A snapshot that proceeds.
Snapshots(f) == f.fn = "Snapshot" /\ f.pc = "snapshotCommon"

\* One of two calls attached to the lock of the other.
Attached(f, g) ==
    /\ f.op # 0 /\ f.op = g.op
    /\ f.acq \in {"inherit", "reuse"} \/ g.acq \in {"inherit", "reuse"}

----------------------------------------------------------------------------
\* Properties of the live migration.

\* migrateSendLive has returned an error to MigrateSend after it took the
\* migration snapshot, and QEMU still answers.
FailedAfterSnapshot(p) ==
    /\ At(p, "MigrateSend", "liveDone") /\ Top(p).rv = "err"
    /\ Has(mig.log, "blockdev-snapshot")
    /\ QmpAnswers

----------------------------------------------------------------------------
\* Properties of a start that fails.

\* No call is in progress and no event is waiting for its handler.
Quiet == (\A p \in Procs : Depth(p) = 0) /\ events = <<>>

\* No caller but p has made a call: p's calls follow one another.
Alone(p) == \A q \in Callers \ {p} : ret[q] = <<>> /\ Depth(q) = 0

\* The one call made so far is a call of p that has returned.
OnlyCall(p) ==
    /\ Quiet
    /\ Len(ret[p]) = 1
    /\ \A q \in Callers \ {p} : ret[q] = <<>>

\* The one call made so far is a start of p that returned an error.
FailedStart(p) ==
    /\ OnlyCall(p)
    /\ ret[p][1].fn = "start" /\ ret[p][1].err = "err"

\* C3: after a start that failed at any of its steps has returned, there
\* is no QEMU process for the instance, the qemu.pid file is absent and the
\* config volume is unmounted.
C3_FailedStartLeavesNothing ==
    \A p \in Callers :
        FailedStart(p) => qemu = "none" /\ ~pidFile /\ ~mounted

\* C4: after a failed start no AppArmor profile of the instance is loaded
\* and none of the files opened for QEMU is open.
C4_FailedStartReleasesAll ==
    \A p \in Callers :
        FailedStart(p) => ~apparmor /\ fds = 0

\* C5: a start that fails after it created its operation lock marks the
\* lock done with the error, and every call that waited for that lock
\* returns an error.
C5_ErrorAttachedToLock ==
    \A p \in Callers : \A i \in DOMAIN ret[p] :
        LET e == ret[p][i] IN
        (e.fn = "start" /\ e.err = "err" /\ e.acq = "created") =>
            /\ ops[e.op].res = "err"
            /\ \A q \in Callers : \A j \in DOMAIN ret[q] :
                 ret[q][j].w = e.op => ret[q][j].err = "err"

----------------------------------------------------------------------------
\* Properties of Shutdown and Stop.

\* The one call made so far is a Shutdown of p that has returned while its
\* lock is live: the timeout elapsed before the instance stopped.
TimedOut(p) ==
    /\ OnlyCall(p)
    /\ ret[p][1].fn = "Shutdown"
    /\ ret[p][1].op # 0 /\ ops[ret[p][1].op].res = "live"

\* The calls made so far are a Shutdown of p and then a Stop of p, which
\* picked up the lock the Shutdown left live and returned nil.
StoppedAfterTimeout(p) ==
    /\ \A q \in Callers \ {p} : ret[q] = <<>> /\ Depth(q) = 0
    /\ Depth(p) = 0 /\ Len(ret[p]) = 2
    /\ ret[p][1].fn = "Shutdown" /\ ret[p][2].fn = "Stop"
    /\ ret[p][2].acq = "reuse" /\ ret[p][2].op = ret[p][1].op
    /\ ret[p][2].err = "nil"

\* C6 as stated: once the timeout of a Shutdown has elapsed on a guest that
\* ignores the powerdown request, a forced Stop runs and the instance ends
\* stopped with its volume unmounted.
C6_TimeoutForcesStop ==
    \A p \in Callers : TimedOut(p) => qemu = "none" /\ ~mounted

\* C6 as the code has it: a Shutdown whose timeout elapses returns an error
\* and leaves QEMU running and the volume mounted; a Stop called after it
\* that returns nil has killed QEMU, and onStop has run: the PID file is
\* gone, the volume unmounted and the AppArmor profile unloaded.
C6_TimeoutReturnsError ==
    \A p \in Callers :
        /\ TimedOut(p) =>
              ret[p][1].err = "err" /\ qemu = "alive" /\ mounted
        /\ StoppedAfterTimeout(p) =>
              /\ ret[p][1].err = "err"
              /\ qemu = "none" /\ ~pidFile /\ ~mounted /\ ~apparmor

C6_StopAfterTimeout ==
    \E p \in Callers : StoppedAfterTimeout(p) /\ qemu = "none"

\* The one call made so far is a Stop of p that saw the status Error and
\* returned nil.
StoppedInError(p) ==
    /\ OnlyCall(p)
    /\ ret[p][1].fn = "Stop" /\ ret[p][1].status = "Error"
    /\ ret[p][1].err = "nil"

----------------------------------------------------------------------------
\* Properties of the lock requests.

\* The inheritance matrix: the actions each operation may attach to.
Matrix ==
    [Stop       |-> {"restart", "restore", "migrate"},
     Shutdown   |-> {"restart"},
     start      |-> {"restart", "restore"},
     Update     |-> {"restart", "restore"},
     ConsoleLog |-> {"restart", "restore", "migrate"}]

\* Every call of an operation of the matrix that inherited a lock inherited
\* one of an action of its row, every call that reused a lock reused a
\* reusable one, and the locks created are reusable for the operations of
\* R and for no other.
FollowsMatrix(R) ==
    \A p \in Procs : \A i \in DOMAIN stack[p] :
        LET f == stack[p][i] IN
        f.fn \in DOMAIN Matrix =>
            /\ f.acq = "inherit" => ops[f.op].action \in Matrix[f.fn]
            /\ f.acq = "reuse" => ops[f.op].reusable
            /\ f.acq = "created" => (ops[f.op].reusable <=> f.fn \in R)

\* C8 as stated: the operations inherit by the matrix, and the locks of
\* Shutdown and of ConsoleRetrieve are reusable.
C8_MatrixConsoleReusable == FollowsMatrix({"Shutdown", "ConsoleLog"})

\* C8 as the code has it: the operations inherit by the matrix and attach
\* by inheritance to no action outside their row; the lock of Shutdown is
\* reusable, the lock of ConsoleRetrieve is not.
C8_MatrixShutdownReusable == FollowsMatrix({"Shutdown"})

\* A ConsoleLog waits for the live lock of another ConsoleLog.
C8_ConsoleLogWaits ==
    \E p \in Callers :
        /\ Depth(p) > 0 /\ Top(p).fn = "ConsoleLog" /\ Top(p).pc = "lockwait"
        /\ ops[Top(p).w].action = "consoleretrieve"
        /\ ops[Top(p).w].res = "live"

----------------------------------------------------------------------------
\* Properties of the volatile keys.

\* The calls i, i+1 and i+2 of p are a start, a Stop and a start that all
\* returned nil.
Restarted(p, i) ==
    /\ i + 2 \in DOMAIN ret[p]
    /\ ret[p][i].fn = "start" /\ ret[p][i].err = "nil"
    /\ ret[p][i + 1].fn = "Stop" /\ ret[p][i + 1].err = "nil"
    /\ ret[p][i + 2].fn = "start" /\ ret[p][i + 2].err = "nil"

C10_FirstStartCreatesUUID ==
    \A p \in Callers :
        (/\ OnlyCall(p)
         /\ ret[p][1].fn = "start"
         /\ ret[p][1].host.busy = {}
         /\ faults = MaxFaults) =>
            ret[p][1].err = "nil" /\ ret[p][1].vol.uuid # 0

\* A start that held a lock, ran and returned nil.
RanStart(e) == e.fn = "start" /\ e.err = "nil" /\ e.op # 0

\* The machine type QEMU was launched with by the start that returned e.
Launched(e) == IF e.mdef # 0 THEN e.mdef ELSE e.host.machine

----------------------------------------------------------------------------
\* The vsock context ID QEMU is launched with.

\* What holds of a start that launches QEMU: it holds an open vhost-vsock
\* handle, the handle's context ID is the one stored in volatile.vsock_id,
\* no other VM of the host, no other start and no QEMU of the instance holds
\* that ID, and the ID is not reserved.
LaunchHandle(p) ==
    LET id == Top(p).vset.vsock IN
    /\ Top(p).nfd > 0
    /\ id = volatile.vsock
    /\ id \notin busyCIDs
    /\ ~(qemu # "none" /\ qemuCID = id)
    /\ \A q \in Procs \ {p} : \A i \in DOMAIN stack[q] :
         (stack[q][i].fn = "start" /\ stack[q][i].nfd > 0)
            => stack[q][i].vset.vsock # id
    /\ id \notin {0, 1, 2}

----------------------------------------------------------------------------
\* volatile.apply_nvram and the NVRAM vars file.

\* A stopped instance whose volatile.apply_nvram is empty, true or false,
\* with or without an NVRAM vars file, on an architecture with UEFI or
\* without, under Start, where one statement may fail or QEMU may crash or
\* hang.
InitNvram ==
    /\ Idle
    /\ Stopped
    /\ volatile = StartedBefore
    /\ snaps = 0
    /\ autorestart = FALSE /\ ephemeral = FALSE
    /\ busyCIDs = {} /\ machine = 1 /\ mig = NoMigration
    /\ calls = MaxCalls /\ poweroffs = 0 /\ faults = MaxFaults
    /\ stateful = FALSE
    /\ nvram \in [apply : {"", "true", "false"}, file : BOOLEAN,
                   uefi : BOOLEAN]
    /\ nvram.file => nvram.uefi
    /\ snapConf = IF snaps = 0 THEN NoSnapshot ELSE volatile

SpecNvram == InitNvram /\ [][NextStart]_vars

\* A start of p that read volatile.apply_nvram as v has returned.
ReadApply(e, v) == e.fn = "start" /\ e.op # 0 /\ e.nv.apply = v

\* C13 as stated: when volatile.apply_nvram is set, a start that returns
\* with the key cleared has succeeded and has regenerated the NVRAM vars
\* file.
C13_ClearedOnlyAfterSuccess ==
    \A p \in Callers : \A i \in DOMAIN ret[p] : LET e == ret[p][i] IN
        (e.fn = "start" /\ e.nv.apply # "" /\ e.nvram.apply = "")
            => e.err = "nil" /\ e.nv.regen

\* C13 as the code has it: on an architecture with UEFI a start that read
\* volatile.apply_nvram as true and returns with the key cleared has
\* regenerated the NVRAM vars file, whether it succeeded or failed; and a
\* start that succeeded has regenerated the file and cleared the key.
C13_ClearedAfterRegeneration ==
    \A p \in Callers : \A i \in DOMAIN ret[p] : LET e == ret[p][i] IN
        (Alone(p) /\ ReadApply(e, "true") /\ e.nvram.uefi) =>
            /\ e.nvram.apply = "" => e.nv.regen /\ e.nvram.file
            /\ e.err = "nil" => e.nvram.apply = "" /\ e.nv.regen

\* A start that regenerated the NVRAM vars file and cleared the key has
\* failed.
C13_ClearedByFailedStart ==
    \E p \in Callers :
        /\ OnlyCall(p) /\ ReadApply(ret[p][1], "true")
        /\ ret[p][1].err = "err"
        /\ ret[p][1].nv.regen /\ nvram.apply = "" /\ nvram.file

----------------------------------------------------------------------------
\* The ports of the fixed devices and of the first NIC.

\* The instance as it is when no operation is called on it.
Parked ==
    /\ stack = [p \in Procs |-> <<>>]
    /\ ret = [p \in Procs |-> <<>>]
    /\ ops = <<>>
    /\ events = <<>>
    /\ fds = 0
    /\ exists = TRUE
    /\ nextUUID = 2
    /\ Stopped
    /\ volatile = StartedBefore
    /\ snaps = 0
    /\ autorestart = FALSE /\ ephemeral = FALSE
    /\ busyCIDs = {} /\ machine = 1 /\ mig = NoMigration
    /\ calls = 0 /\ poweroffs = 0 /\ faults = 0
    /\ stateful = FALSE
    /\ nvram = NvramSetUp
    /\ snapConf = IF snaps = 0 THEN NoSnapshot ELSE volatile

\* The guest configurations: the architecture, whether the guest is Windows,
\* security.csm, security.iommu and whether INCUS_AGENT_PATH exists.
GuestConfigs ==
    [arch : {"x86_64", "ppc64le"}, windows : BOOLEAN, csm : BOOLEAN,
     iommu : BOOLEAN, agent : BOOLEAN]

\* The run configurations of the devices of an instance, in the devices'
\* sort order: NICs come first.
DeviceLists ==
    {<<>>, <<"nic">>, <<"nic-usb", "nic">>, <<"nic", "drive-nvme">>,
     <<"nic", "nic", "drive-scsi", "drive-nvme">>, <<"drive-nvme">>}

InitBus == Parked /\ OthersIdle("bus") /\ bus = NoBus

NextBus ==
    \/ /\ \E c \in GuestConfigs : \E runConfs \in DeviceLists :
             ConfigBegin(c, runConfs)
       /\ UNCHANGED busRest
    \/ ConfigFixed /\ UNCHANGED busRest
    \/ ConfigDevice /\ UNCHANGED busRest

SpecBus == InitBus /\ [][NextBus]_vars

\* C14: for every guest configuration on a PCI(e) bus the fixed internal
\* devices consume exactly 4 bus ports, and the first NIC in device sort
\* order is on the 5th allocated port.
C14_FixedDevicesTakeFourPorts ==
    bus.pc \in {"devices", "done"} =>
        /\ bus.fixed = 4
        /\ bus.nic # 0 => bus.nic = 5

\* What the code does: the fixed devices of a guest that is not Windows
\* consume 4 ports and its first NIC is on the 5th; those of a Windows guest
\* consume 3 and its first NIC is on the 4th.
C14_PortsByGuest ==
    bus.pc \in {"devices", "done"} =>
        LET n == IF bus.conf.windows THEN 3 ELSE 4 IN
        /\ bus.fixed = n
        /\ bus.nic # 0 => bus.nic = n + 1

\* The configuration of a Windows guest with a NIC has been generated.
C14_WindowsNIC ==
    bus.pc = "done" /\ bus.conf.windows /\ bus.nic # 0

----------------------------------------------------------------------------
\* Update: what it rejects and what a rejected request has changed.

\* The devices of the requests: one disk, there or not, with or without a
\* value of initial.uid.
DeviceSets ==
    {[disk |-> d] : d \in
        {NoDevice} \cup
        {d \in [DeviceKeys -> {Absent, "", "1", "2", "disk"}] :
            /\ d["type"] = "disk" /\ d["size"] \in {"1", "2"}
            /\ d["initial.uid"] # "disk"}}

\* The instance definitions of the requests.
Definitions == [config : [ConfigKeys -> {"a", "b"}], devices : DeviceSets]

UpdateArgs ==
    {a \in [running : BOOLEAN, old : Definitions, new : Definitions] :
        \A k \in ConfigKeys : a.old.config[k] = "a"}

InitUpdate == Parked /\ OthersIdle("upd") /\ upd = NoUpdate

NextUpdate ==
    \/ (\E args \in UpdateArgs : UpdateBegin(args)) /\ UNCHANGED updRest
    \/ UpdateInitial /\ UNCHANGED updRest
    \/ UpdateDevices /\ UNCHANGED updRest
    \/ UpdateLive /\ UNCHANGED updRest
    \/ UpdateStore /\ UNCHANGED updRest

SpecUpdate == InitUpdate /\ [][NextUpdate]_vars

\* The values of the initial.* keys of the devices ds.
InitialOf(ds) == [n \in DOMAIN ds |-> [k \in {k \in DeviceKeys : IsInitial(k)} |-> ds[n][k]]]

\* C15: Update returns an error for every request that adds, removes or
\* changes the value of an initial.* key of a device.
C15_InitialChangeRejected ==
    (upd.pc = "done" /\ InitialOf(upd.old.devices) # InitialOf(upd.new.devices))
        => upd.err # "nil"

\* The request gives an initial.* key a device did not have, or gives one a
\* device had another value that is not empty.
SetsInitial(old, new) ==
    \E n \in DOMAIN new : \E k \in DeviceKeys :
        /\ IsInitial(k) /\ new[n][k] \notin {Absent, old[n][k]}
        /\ old[n][k] = Absent \/ new[n][k] # ""

\* C15 as the code has it: Update returns the error of its check of the
\* initial configuration for exactly the requests that give a device an
\* initial.* key it did not have or another value that is not empty; a
\* request that takes the key away, empties it or removes the device passes
\* the check.
C15_InitialSetRejected ==
    upd.pc \notin {"none", "initial"} =>
        (upd.err = "initial"
            <=> SetsInitial(upd.old.devices, upd.new.devices))

\* An Update that takes an initial.* key away from a device has returned nil.
C15_InitialRemoved ==
    /\ upd.pc = "done" /\ upd.err = "nil"
    /\ upd.old.devices["disk"]["initial.uid"] = "1"
    /\ upd.new.devices["disk"]["type"] = "disk"
    /\ upd.new.devices["disk"]["initial.uid"] = Absent

\* C16: when Update on a running VM is rejected because a changed key cannot
\* be updated live, no device has been added, removed or updated and nothing
\* else has changed in the running VM or in the stored definition.
C16_RejectedLiveUpdateChangesNothing ==
    (upd.pc = "done" /\ upd.running /\ upd.err = "live")
        => upd.vm = upd.old /\ upd.db = upd.old /\ upd.inst = upd.old

----------------------------------------------------------------------------
\* setCPUs: the CPUs it leaves plugged.

\* A running VM with its fixed CPU and any of the others plugged, under one
\* call of setCPUs, where one QMP command or postCPUHotplug may fail.
InitCPUs ==
    /\ Parked /\ OthersIdle("cpu")
    /\ \E c \in SUBSET (CPUs \ {FixedCPU}) :
         cpu = [pc |-> "idle", plugged |-> c, before |-> c, count |-> 0,
                todo |-> <<>>, rev |-> <<>>, cmds |-> 0, err |-> "nil",
                faults |-> MaxFaults]

NextCPUs ==
    \/ (\E count \in 0..(MaxCPUs + 1) : SetCPUsBegin(count))
          /\ UNCHANGED cpuRest
    \/ SetCPUsAdd /\ UNCHANGED cpuRest
    \/ SetCPUsRemove /\ UNCHANGED cpuRest
    \/ SetCPUsRevert /\ UNCHANGED cpuRest
    \/ SetCPUsPost /\ UNCHANGED cpuRest

SpecCPUs == InitCPUs /\ [][NextCPUs]_vars

\* The CPUs that are plugged: the entries with qom-path set.
Plugged(c) == Cardinality(c \cup {FixedCPU})

\* C17: for a target count between 1 and the number of hotpluggable CPUs, a
\* setCPUs that returns nil leaves exactly count CPUs plugged; one whose
\* count is the current one issues no QMP device change; and one whose
\* adding or removing of a CPU failed leaves the CPUs plugged that were
\* plugged before.
C17_SetCPUs ==
    (cpu.pc = "done" /\ cpu.count \in 1..MaxCPUs) =>
        /\ cpu.err = "nil" => Plugged(cpu.plugged) = cpu.count
        /\ cpu.count = Plugged(cpu.before) =>
              cpu.cmds = 0 /\ cpu.plugged = cpu.before
        /\ cpu.err = "device" => cpu.plugged = cpu.before

\* A setCPUs that was to add two CPUs or more has added one, failed to add
\* the next and returned.
C17_FailedPartWay ==
    /\ cpu.pc = "done" /\ cpu.err = "device"
    /\ cpu.cmds >= 2 /\ cpu.count > Plugged(cpu.before)

----------------------------------------------------------------------------
\* Snapshot and Restore (driver_qemu.go 5508-5690).

\* The calls of a behaviour that takes a snapshot and restores it.
SnapshotCalls == 2

\* An instance without a snapshot, stopped or running, on a host whose QEMU
\* may have been upgraded since the instance was started, under Snapshot
\* and Restore; no statement fails.
InitSnapshot ==
    /\ Idle
    /\ \/ Stopped /\ volatile \in NeverStarted \cup {StartedBefore}
       \/ Running /\ volatile = StartedBefore
    /\ snaps = 0
    /\ autorestart = FALSE /\ ephemeral = FALSE
    /\ busyCIDs = {} /\ machine \in Machines /\ mig = NoMigration
    /\ calls = SnapshotCalls /\ poweroffs = 0 /\ faults = 0
    /\ stateful = FALSE
    /\ nvram = NvramSetUp
    /\ snapConf = IF snaps = 0 THEN NoSnapshot ELSE volatile

NextSnapshot ==
    \/ \E p \in Procs :
         \/ Call(p, SnapshotOperations)
         \/ Acquire(p) \/ StartSteps(p) \/ StopSteps(p)
         \/ OnStopSteps(p)
         \/ UpdateApply(p)
         \/ SnapshotBegin(p) \/ SnapshotCommon(p)
         \/ RestoreSteps(p)
    \/ HandleEvent \/ QemuExit

SpecSnapshot == InitSnapshot /\ [][NextSnapshot]_vars

\* Caller p took a snapshot with call i and restored it with its next call.
SnapshotRestored(p, i) ==
    /\ i + 1 \in DOMAIN ret[p]
    /\ ret[p][i].fn = "Snapshot" /\ ret[p][i].err = "nil"
    /\ ret[p][i + 1].fn = "Restore" /\ ret[p][i + 1].err = "nil"

----------------------------------------------------------------------------
\* The order of the steps of migrateSendLive (driver_qemu.go 7406-7818).

IsPrefix(s, t) == Len(s) <= Len(t) /\ s = SubSeq(t, 1, Len(s))

\* The steps of a live migration over storage that is not shared, as the
\* specification lists them: the last ones depend on whether the migration
\* is an intra-cluster move.
LiveOrder(cluster) ==
    <<"migrate-set-capabilities", "blockdev-add", "blockdev-snapshot",
      "MigrateInstance", "blockdev-add-nbd", "blockdev-mirror", "migrate",
      "wait pre-switchover", "block-job-cancel", "migrate-continue",
      "wait completed">>
    \o (IF cluster THEN <<"Stop">>
        ELSE <<"blockdev-del-nbd", "cont", "block-commit">>)

\* Caller p runs migrateSendLive and no statement of it has failed.
LiveRunning(p) ==
    \E i \in DOMAIN stack[p] :
        /\ stack[p][i].fn = "migrateSendLive"
        /\ stack[p][i].pc \notin {"connect", "unwind"}

\* migrateSendLive of caller p has returned nil to MigrateSend.
LiveSucceeded(p) == At(p, "MigrateSend", "liveDone") /\ Top(p).rv = "nil"

\* C19: over storage that is not shared a live migration takes its steps in
\* the listed order and no other: what it has done so far is a beginning of
\* the list, and all of the list when it succeeds. Stated for the
\* migration of a caller that no other caller's runs beside.
C19_LiveStepsInOrder ==
    \A p \in Callers :
        (Alone(p) /\ ~mig.shared) =>
            /\ LiveRunning(p) => IsPrefix(mig.log, LiveOrder(mig.cluster))
            /\ LiveSucceeded(p) => mig.log = LiveOrder(mig.cluster)

\* A live migration to another server succeeded: the NBD target is gone, the
\* guest runs again and the snapshot is committed.
C19_LiveMigrationDone ==
    \E p \in Callers :
        /\ LiveSucceeded(p) /\ ~mig.shared /\ ~mig.cluster
        /\ Len(mig.log) = Len(LiveOrder(FALSE))

----------------------------------------------------------------------------
\* The result of MigrateSend (driver_qemu.go 7303-7402).

\* The one call made so far is a MigrateSend of p that started its two
\* routines and has returned.
SendReturned(p) ==
    /\ OnlyCall(p)
    /\ ret[p][1].fn = "MigrateSend" /\ mig.ctl # "none"

\* C20: MigrateSend returns nil only if the transfer routine returned nil
\* and the target's message reported success; when a routine failed, the
\* context was cancelled, the connections were disconnected, MigrateSend
\* returns the error and its lock is marked done with the error.
C20_SendResult ==
    \A p \in Callers :
        SendReturned(p) =>
            LET e == ret[p][1] IN
            /\ e.err = "nil" => mig.xfer = "nil" /\ mig.ctl = "success"
            /\ mig.first # "none" =>
                   /\ mig.cancelled /\ mig.disc
                   /\ e.err = "err"
                   /\ ops[e.op].res = "err"

\* What holds of the code: the result of MigrateSend, and the context and
\* the connections, are as C20 says; the lock may have been marked done
\* before.
C20_SendReturnsFirstError ==
    /\ mig.first # "none" \/ mig.disc => mig.cancelled
    /\ \A p \in Callers :
          SendReturned(p) =>
              LET e == ret[p][1] IN
              /\ e.err = "nil" <=> mig.xfer = "nil" /\ mig.ctl = "success"
              /\ e.err = "nil" <=> mig.first = "none"
              /\ mig.cancelled /\ mig.disc
              /\ ops[e.op].res # "live"

\* The target reported a failure after an intra-cluster move had stopped the
\* instance: MigrateSend returned the error, and its lock says success.
C20_FailedAfterStop ==
    \E p \in Callers :
        /\ SendReturned(p)
        /\ mig.first = "control" /\ mig.xfer = "nil"
        /\ ret[p][1].err = "err" /\ ops[ret[p][1].op].res = "ok"

----------------------------------------------------------------------------
\* The transfer mode of MigrateSend (driver_qemu.go 7240-7387).

\* The MigrateSend of caller p is at pc.
SendAt(p, pc) ==
    Depth(p) > 0 /\ stack[p][1].fn = "MigrateSend" /\ stack[p][1].pc = pc

\* C21: the transfer routine takes the QEMU to QEMU live path exactly when
\* the request is live and the target accepted the QEMU state transfer; a
\* live request to another target reaches the storage copy with the instance
\* stopped and its state saved; a request that is not live goes to the
\* storage copy in one step that leaves the QEMU process alone.
C21_StoppedStatefully ==
    \A p \in Callers :
        Alone(p) =>
            /\ SendAt(p, "liveDone") => mig.live /\ mig.target
            /\ SendAt(p, "stopped") => mig.live /\ ~mig.target
            /\ (SendAt(p, "copy") /\ mig.live) =>
                  ~mig.target /\ qemu = "none" /\ stateful

C21_CopyWithoutStop ==
    \A p \in Callers :
        (At(p, "MigrateSend", "transfer") /\ stack'[p] # stack[p]) =>
            /\ Depth(p)' = 1 => SendAt(p, "copy")' /\ ~mig'.live
            /\ ~mig'.live => SendAt(p, "copy")' /\ UNCHANGED procVars

----------------------------------------------------------------------------
\* The intra-cluster move under the same name (driver_qemu.go 7349-7370).

\* C22: while the transfer routine of an intra-cluster live move under the
\* instance's own name runs, the sender has volatileSetPersistDisable set and
\* its instance registered, no VolatileSet of the source has reached the
\* database, and a device cleanup of onStop has run against the registered
\* instance; when the routine has returned without error the source is
\* stopped and was cleaned up that way.
C22_MoveKeepsVolatile ==
    \A p \in Callers :
        (Alone(p) /\ mig.sameName) =>
            /\ SendAt(p, "liveDone") =>
                  /\ mig.persistOff /\ mig.ref
                  /\ ~mig.wrote /\ mig.cleanup \in {"none", "ref"}
            /\ (SendAt(p, "wait") /\ mig.xfer = "nil") =>
                  /\ ~mig.wrote /\ mig.cleanup = "ref"
                  /\ qemu = "none" /\ devs = 0

\* An intra-cluster live move under the same name has stopped and cleaned up
\* the source.
C22_MovedAndCleanedUp ==
    \E p \in Callers :
        /\ Alone(p) /\ mig.sameName
        /\ SendAt(p, "wait") /\ mig.xfer = "nil"
        /\ mig.cleanup = "ref" /\ ~mig.wrote

----------------------------------------------------------------------------
\* The instance stops by itself or is stopped, with or without
\* boot.autorestart (driver_qemu.go 456-531, 666-771, 5615-5629).

\* The calls of a behaviour in which the guest powers off or resets.
AutoRestartCalls == 1

\* A running instance whose guest may power off, reset or send another
\* event once, under Stop and Shutdown; no statement fails.
InitAutoRestart ==
    /\ Idle
    /\ Running
    /\ volatile = StartedBefore
    /\ snaps = 0
    /\ autorestart \in BOOLEAN /\ ephemeral \in BOOLEAN
    /\ busyCIDs = {} /\ machine = 1 /\ mig = NoMigration
    /\ calls = AutoRestartCalls /\ poweroffs = MaxPoweroffs /\ faults = 0
    /\ stateful = FALSE
    /\ nvram = NvramSetUp
    /\ snapConf = IF snaps = 0 THEN NoSnapshot ELSE volatile

NextAutoRestart ==
    \/ \E p \in Procs :
         \/ Call(p, StopOperations)
         \/ LockSteps(p) \/ StartSteps(p) \/ StopSteps(p)
         \/ OnStopSteps(p) \/ OnStopSetupWait(p) \/ RestartSteps(p)
         \/ ShutdownSteps(p)
    \/ HandleEvent \/ QemuExit
    \/ GuestPoweroff \/ GuestReset \/ GuestEvent

SpecAutoRestart == InitAutoRestart /\ [][NextAutoRestart]_vars

\* C23 as stated: between the stop and the restore of a Restore of a running
\* instance, and between the stop and the start of an automatic restart, the
\* instance has a live operation lock.
C23_NoLockWindow ==
    \A p \in Procs :
        (At(p, "Restore", "recreate") \/ At(p, "onStop", "lock")) =>
            Live # {}

----------------------------------------------------------------------------
\* The preparation of Shutdown and of MigrateSend (driver_qemu.go 794-822,
\* 7139-7225).

\* A step in which the Shutdown or MigrateSend of p returns from its
\* preparation leaves the lock marked done with the error.
PreparationFailureMarked ==
    \A p \in Callers :
        ( /\ At(p, "MigrateSend", "prepare") \/ At(p, "Shutdown", "connect")
          /\ Len(stack'[p]) < Len(stack[p]) ) =>
            ops'[Top(p).op].res = "err"

\* C24 as stated: a Shutdown or MigrateSend that fails in its preparation,
\* with the lock acquired, marks the lock done with the error, and leaves no
\* lock live.
C24_PreparationFailureMarked == [][PreparationFailureMarked]_vars

----------------------------------------------------------------------------
\* The disconnect event during start (driver_qemu.go 1945-1971, 2110-2139).

\* The start of p has connected to the monitor and has not yet succeeded.
StartConnected(p) ==
    \E i \in DOMAIN stack[p] :
        /\ stack[p][i].fn = "start"
        /\ stack[p][i].pc \in {"definition", "monitorSetup", "postStart",
                               "finish"}

\* C25 as stated: from the connection of start to the monitor until start
\* has succeeded, the monitor does not raise the shutdown event when it
\* disconnects.
C25_NoDisconnectEventDuringStart ==
    \A p \in Callers :
        (Alone(p) /\ StartConnected(p) /\ mon) => ~onDisc

----------------------------------------------------------------------------
\* The automatic restart (driver_qemu.go 726-760).

\* No caller has made a call, and the guest has acted once.
GuestOnly ==
    /\ \A q \in Callers : ret[q] = <<>> /\ Depth(q) = 0
    /\ poweroffs = MaxPoweroffs - 1

\* The lock i is the restart lock onStop opened after it marked the stop
\* lock of the instance's own shutdown done.
RestartLockAfterStop(i) ==
    /\ i > 1
    /\ ops[i].action = "restart"
    /\ ops[i - 1].action = "stop" /\ ops[i - 1].initiated
    /\ ops[i - 1].res = "ok"

\* onStop asks for the restart lock with the stop lock marked done and no
\* lock live, and calls Start under the restart lock.
AutoRestartOrder ==
    (GuestOnly /\ autorestart /\ Depth(Handler) > 0
       /\ stack[Handler][1].target = "stop") =>
        LET f == stack[Handler][1] IN
        /\ f.pc = "lock" =>
              /\ Live = {}
              /\ ops[Len(ops)].action = "stop" /\ ops[Len(ops)].initiated
              /\ ops[Len(ops)].res = "ok"
        /\ f.pc \in {"reboot", "started"} =>
              RestartLockAfterStop(f.op) /\ f.op = Len(ops)
        /\ f.pc = "reboot" => ops[f.op].res = "live" /\ qemu = "none"
        /\ f.pc # "return"

\* When onStop has returned the instance is running again and the restart
\* lock is done.
RunningAgain ==
    (GuestOnly /\ autorestart /\ Depth(Handler) = 0 /\ ret[Handler] # <<>>
       /\ ret[Handler][1].target = "stop") =>
        LET r == ret[Handler][1] IN
        /\ r.err = "nil"
        /\ RestartLockAfterStop(r.op) /\ ops[r.op].res = "ok"
        /\ qemu = "alive" /\ mon /\ onDisc

\* C26: when the guest powers off and boot.autorestart applies, onStop
\* marks the stop lock done, then opens a restart lock, then calls Start, and
\* the instance ends up running again.
C26_AutoRestart == AutoRestartOrder /\ RunningAgain

\* boot.autorestart applies, the guest has powered off, and onStop has
\* returned from the restart.
C26_Restarted ==
    /\ GuestOnly /\ autorestart /\ Depth(Handler) = 0
    /\ ret[Handler] # <<>> /\ ret[Handler][1].target = "stop"
    /\ ret[Handler][1].err = "nil" /\ qemu = "alive"

\* C27 as stated: while the guest has not stopped by itself, whatever
\* Shutdown and Stop the host asks for, onStop opens no restart lock and
\* calls no Start.
C27_HostStopNotRestarted ==
    poweroffs = MaxPoweroffs =>
        /\ \A i \in DOMAIN ops : ops[i].action # "restart"
        /\ \A p \in Procs : \A i \in DOMAIN stack[p] :
              stack[p][i].fn # "start"

----------------------------------------------------------------------------
\* The events of the monitor (driver_qemu.go 456-531, 752-760).

\* The instance has been cleaned up: no device is started, the PID file is
\* gone, the config volume is unmounted and the AppArmor profile unloaded.
CleanedUp == devs = 0 /\ ~pidFile /\ ~mounted /\ ~apparmor

\* The handler's onStop by the reason of the SHUTDOWN event: with guest-reset
\* it goes from the cleanup to Start, without a restart lock of its own, and
\* returns with the instance running; with another reason it goes to Start
\* only through the automatic restart, and without boot.autorestart returns
\* with the instance stopped and cleaned up.
OnStopByReason ==
    /\ (GuestOnly /\ Depth(Handler) > 0) =>
          LET f == stack[Handler][1] IN
          /\ (f.target = "reboot" /\ f.pc = "reboot") =>
                CleanedUp /\ qemu = "none"
          /\ f.target = "reboot" => f.pc \notin {"lock", "return"}
          /\ (f.target = "stop" /\ f.pc \in {"lock", "reboot", "started"}) =>
                autorestart
          /\ (f.target = "stop" /\ f.pc = "return") =>
                CleanedUp /\ qemu = "none"
    /\ (GuestOnly /\ Depth(Handler) = 0 /\ ret[Handler] # <<>>) =>
          LET r == ret[Handler][1] IN
          /\ r.err = "nil"
          /\ r.target = "reboot" => qemu = "alive" /\ mon /\ onDisc
          /\ (r.target = "stop" /\ ~autorestart) =>
                CleanedUp /\ qemu = "none"

\* The handler takes an event: a SHUTDOWN event starts onStop with the
\* target its reason gives, and any other event changes nothing but the
\* queue of events.
EventTaken ==
    (Depth(Handler) = 0 /\ events # <<>> /\ events' = Tail(events)) =>
        IF Head(events) \in ShutdownEvents
        THEN /\ Len(stack'[Handler]) = 1
             /\ stack'[Handler][1].fn = "onStop"
             /\ stack'[Handler][1].target = Head(events)
        ELSE UNCHANGED <<stack, ret, ops, qemu, qmpOK, mon, onDisc, resVars,
                         confVars, cntVars>>

\* C28: a SHUTDOWN event with reason guest-reset leads to the cleanup and to
\* a new start of the instance; a SHUTDOWN event with another reason leads
\* to the cleanup without a reboot (the instance is started again only by
\* the automatic restart of boot.autorestart); an event that is not SHUTDOWN
\* changes nothing.
C28_EventsByReason == []OnStopByReason /\ [][EventTaken]_vars

\* The guest has reset, and onStop has cleaned up and started the instance
\* again.
C28_Rebooted ==
    /\ GuestOnly /\ Depth(Handler) = 0 /\ ret[Handler] # <<>>
    /\ ret[Handler][1].target = "reboot" /\ ret[Handler][1].err = "nil"
    /\ qemu = "alive"

----------------------------------------------------------------------------
\* The order of onStop (driver_qemu.go 647-663, 684-771).

\* When only the guest has acted (no caller runs a second onStop or a start
\* beside it), onStop is past pidWait only with the QEMU process gone, unmounts with the
\* devices cleaned up, unloads the AppArmor profile with the config volume
\* unmounted, and goes on to the restart or to its return with all of that
\* done.
OnStopOrder ==
    \A p \in Procs :
        (GuestOnly /\ Depth(p) > 0 /\ Top(p).fn = "onStop") =>
            LET pc == Top(p).pc IN
            /\ pc = "cleanup" => pid <= 0
            /\ pc = "unmount" => devs = 0 /\ cfgDrive = "none" /\ ~pidFile
            /\ pc = "apparmor" => devs = 0 /\ ~mounted
            /\ pc \in {"restart", "lock", "reboot", "return"} => CleanedUp

\* A step of onStop at its pidWait changes none of the instance's
\* resources and is taken once the process has gone; the instance is
\* deleted only by a step of onStop at its return.
OnStopWaits ==
    /\ \A p \in Procs :
          (At(p, "onStop", "pidWait") /\ stack'[p] # stack[p]) =>
              /\ UNCHANGED resVars
              /\ pid <= 0 \/ faults' < faults
    /\ (exists /\ ~exists') =>
          \E p \in Procs : At(p, "onStop", "return") /\ ephemeral

\* C29: onStop waits for the QEMU process to exit before any cleanup, runs
\* the device cleanup before it unmounts the config volume, unloads the
\* AppArmor profile after the unmount, and only then restarts the instance
\* or deletes an ephemeral one.
C29_OnStopOrder == []OnStopOrder /\ [][OnStopWaits]_vars

\* An ephemeral instance has stopped by itself and onStop has deleted it.
C29_EphemeralDeleted ==
    /\ GuestOnly /\ ephemeral /\ ~exists
    /\ Depth(Handler) = 0 /\ ret[Handler] # <<>>
    /\ CleanedUp

----------------------------------------------------------------------------
\* The order in which the devices are started and stopped.

\* The entries expandedDevices may hold: a NIC, the root disk, a second
\* disk, a GPU and a unix-char device, a type VMs do not support.
AllDevices ==
    {[name |-> "eth0", type |-> "nic", path |-> ""],
     [name |-> "root", type |-> "disk", path |-> "/"],
     [name |-> "data", type |-> "disk", path |-> "/mnt"],
     [name |-> "gpu0", type |-> "gpu", path |-> ""],
     [name |-> "tty0", type |-> "unix-char", path |-> ""]}

\* deviceLoad returns ErrUnsupportedDevType for these types.
UnsupportedDevTypes == {"unix-char"}

\* The strings that are compared, in their byte order.
ByteOrder == <<"", "/", "/mnt", "data", "disk", "eth0", "gpu", "gpu0", "nic",
               "root", "tty0", "unix-char">>

StringLess(a, b) ==
    (CHOOSE i \in DOMAIN ByteOrder : ByteOrder[i] = a)
        < (CHOOSE i \in DOMAIN ByteOrder : ByteOrder[i] = b)

\* DevicesSortable.Less: NICs first, then disks, then the other types
\* together; disks in path order with the root disk first; then by name.
Less(a, b) ==
    IF a.type # b.type
    THEN IF a.type = "nic" THEN TRUE
         ELSE IF b.type = "nic" THEN FALSE
         ELSE IF a.type = "disk" THEN TRUE
         ELSE IF b.type = "disk" THEN FALSE
         ELSE StringLess(b.type, a.type)
    ELSE IF a.type = "disk" /\ a.path # b.path
    THEN IF a.path = "/" THEN TRUE
         ELSE IF b.path = "/" THEN FALSE
         ELSE StringLess(a.path, b.path)
    ELSE StringLess(a.name, b.name)

\* sort.Reverse: Less with its arguments exchanged.
ReverseLess(a, b) == Less(b, a)

\* The inner loop of insertionSort: x moves left past every element it is
\* less than, starting at the end of the sorted prefix.
RECURSIVE InsertSorted(_, _, _)
InsertSorted(sorted, x, reversed) ==
    IF sorted = <<>> THEN <<x>>
    ELSE LET last == sorted[Len(sorted)] IN
         IF (IF reversed THEN ReverseLess(x, last) ELSE Less(x, last))
         THEN Append(InsertSorted(SubSeq(sorted, 1, Len(sorted) - 1), x,
                                  reversed), last)
         ELSE Append(sorted, x)

\* sort.Sort on a slice this short is insertionSort.
RECURSIVE InsertionSort(_, _)
InsertionSort(list, reversed) ==
    IF list = <<>> THEN <<>>
    ELSE InsertSorted(InsertionSort(SubSeq(list, 1, Len(list) - 1), reversed),
                      list[Len(list)], reversed)

\* The orders in which ranging over the map of devices may append them.
MapOrders(devices) ==
    {order \in [1..Cardinality(devices) -> devices] :
        \A i, j \in DOMAIN order : order[i] = order[j] => i = j}

\* Devices.Sorted and Devices.Reversed: the entries of the map, sorted.
Sorted(order) == InsertionSort(order, FALSE)
Reversed(order) == InsertionSort(order, TRUE)

\* A list, last element first.
RECURSIVE ReverseSeq(_)
ReverseSeq(list) ==
    IF list = <<>> THEN <<>>
    ELSE Append(ReverseSeq(Tail(list)), Head(list))

\* A stopped instance with the devices expanded.
DevicesOf(devices) ==
    [pc |-> "idle", devices |-> devices, todo |-> <<>>, started |-> <<>>,
     stopped |-> <<>>, skipped |-> {}, rev |-> <<>>, how |-> "none",
     faults |-> MaxFaults]

\* start: the devices are loaded in sorted order, the unsupported ones are
\* left out, and every device is validated and pre-start checked before any
\* is started.
StartDevicesLoad ==
    /\ dev.pc = "idle"
    /\ \E order \in MapOrders(dev.devices) :
         LET startDevices ==
                 SelectSeq(Sorted(order),
                           LAMBDA e : e.type \notin UnsupportedDevTypes)
         IN  \/ dev' = [dev EXCEPT !.pc = "start", !.todo = startDevices]
             \/ /\ dev.faults > 0 /\ startDevices # <<>>
                /\ dev' = [dev EXCEPT !.pc = "done", !.how = "invalid",
                                      !.faults = @ - 1]

\* start: the next device is started and its stop, and its run
\* configuration's revert if it has one, are added to the reverter; a
\* failure of deviceStart returns from start.
StartDevicesNext ==
    /\ dev.pc = "start" /\ dev.todo # <<>>
    /\ LET d == Head(dev.todo) IN
       \/ \E revert \in BOOLEAN :
             dev' = [dev EXCEPT
                        !.todo = Tail(@),
                        !.started = Append(@, d.name),
                        !.rev = @ \o <<[stop |-> TRUE, name |-> d.name]>>
                                  \o (IF revert
                                      THEN <<[stop |-> FALSE,
                                              name |-> d.name]>>
                                      ELSE <<>>)]
       \/ /\ dev.faults > 0
          /\ dev' = [dev EXCEPT !.pc = "unwind", !.faults = @ - 1]

\* start after the devices: it succeeds and drops the reverter, or one of
\* its later steps fails.
StartDevicesDone ==
    /\ dev.pc = "start" /\ dev.todo = <<>>
    /\ \/ dev' = [dev EXCEPT !.pc = "running", !.rev = <<>>]
       \/ /\ dev.faults > 0
          /\ dev' = [dev EXCEPT !.pc = "unwind", !.faults = @ - 1]

\* The reverter running its entries first in, first out.
ReverterFailInOrder ==
    /\ dev.pc = "unwind"
    /\ IF dev.rev = <<>>
       THEN dev' = [dev EXCEPT !.pc = "done", !.how = "unwind"]
       ELSE LET entry == Head(dev.rev) IN
            dev' = [dev EXCEPT
                       !.rev = Tail(@),
                       !.stopped = IF entry.stop THEN Append(@, entry.name)
                                   ELSE @]

\* reverter.Fail: the entries run last in, first out.
ReverterFail ==
    /\ dev.pc = "unwind"
    /\ IF dev.rev = <<>>
       THEN dev' = [dev EXCEPT !.pc = "done", !.how = "unwind"]
       ELSE LET entry == dev.rev[Len(dev.rev)] IN
            dev' = [dev EXCEPT
                       !.rev = SubSeq(@, 1, Len(@) - 1),
                       !.stopped = IF entry.stop THEN Append(@, entry.name)
                                   ELSE @]

\* cleanupDevices ranging over the devices in their sorted order.
CleanupDevicesSorted ==
    /\ dev.pc = "running"
    /\ \E order \in MapOrders(dev.devices) :
         dev' = [dev EXCEPT !.pc = "cleanup",
                            !.todo = Sorted(order)]

\* cleanupDevices: the config drive mount is cleared and the devices are
\* ranged over in reverse sorted order.
CleanupDevices ==
    /\ dev.pc = "running"
    /\ \E order \in MapOrders(dev.devices) :
         dev' = [dev EXCEPT !.pc = "cleanup", !.todo = Reversed(order)]

\* cleanupDevices, one entry: an unsupported device is passed over; a
\* device is stopped if deviceLoad returned one, and a failure of its stop
\* is only logged.
CleanupDevice ==
    /\ dev.pc = "cleanup"
    /\ IF dev.todo = <<>>
       THEN dev' = [dev EXCEPT !.pc = "done", !.how = "cleanup"]
       ELSE LET d == Head(dev.todo) IN
            IF d.type \in UnsupportedDevTypes
            THEN dev' = [dev EXCEPT !.todo = Tail(@)]
            ELSE \/ dev' = [dev EXCEPT !.todo = Tail(@),
                                       !.stopped = Append(@, d.name)]
                 \/ /\ dev.faults > 0
                    /\ dev' = [dev EXCEPT !.todo = Tail(@),
                                          !.skipped = @ \cup {d.name},
                                          !.faults = @ - 1]

InitDevices ==
    /\ Parked /\ OthersIdle("dev")
    /\ \E devices \in SUBSET AllDevices : dev = DevicesOf(devices)

NextDevices ==
    \/ StartDevicesLoad /\ UNCHANGED devRest
    \/ StartDevicesNext /\ UNCHANGED devRest
    \/ StartDevicesDone /\ UNCHANGED devRest
    \/ ReverterFail /\ UNCHANGED devRest
    \/ CleanupDevices /\ UNCHANGED devRest
    \/ CleanupDevice /\ UNCHANGED devRest

SpecDevices == InitDevices /\ [][NextDevices]_vars

\* The devices of the start log that were stopped, last started first.
StoppedInReverse ==
    SelectSeq(ReverseSeq(dev.started), LAMBDA n : n \notin dev.skipped)

----------------------------------------------------------------------------
\* What a start that returns nil has done.

\* A start of p returns in this step.
StartReturns(p) ==
    /\ At(p, "start", "unwind")
    /\ Len(stack'[p]) < Len(stack[p])

\* C31: a start returns nil only if a QEMU process of the instance is
\* running and the reverter of the start was committed; a start that finds
\* no process ID after the launch returns an error.
C31_NilOnlyWhenRunning ==
    [][\A p \in Procs :
          /\ (StartReturns(p) /\ Top(p).err = "nil") =>
                 Top(p).rev = <<>> /\ pid > 0
          /\ (At(p, "start", "pid") /\ pid <= 0 /\ stack'[p] # stack[p]) =>
                 Top(p)'.err = "err"]_vars

----------------------------------------------------------------------------
\* The functions that only compute.

\* The action of the live operation lock of the instance, "none" without one.
LockActions == {"none", "start", "stop", "restart", "migrate"}

\* What pid() returns: -1 with its error, 0 when the PID file or the process
\* has gone, else the PID.
PidResults == {-1, 0, 1}

\* What monitor.Status returns: ErrMonitorDisconnect, another error, or the
\* run state QEMU reports.
RunStates == {"prelaunch", "running", "inmigrate", "postmigrate",
              "finish-migrate", "save-vm", "suspended", "paused", "shutdown",
              "internal-error"}
StatusResults == {"disconnect", "error"} \cup RunStates

\* The arguments of statusCode: the lock, volatile.last_state.ready, whether
\* qmpConnect succeeds, and what pid() and monitor.Status return.
StatusArgs ==
    [lock : LockActions, ready : BOOLEAN, connect : BOOLEAN,
     pid : PidResults, status : StatusResults]

\* statusCode asking the process ID under every lock.
StatusCodeNoShortcut(a) ==
    IF ~a.connect THEN (IF a.pid > 0 THEN "Error" ELSE "Stopped")
    ELSE IF a.status = "disconnect"
    THEN (IF a.pid > 0 THEN "Error" ELSE "Stopped")
    ELSE IF a.status = "error" THEN "Error"
    ELSE IF a.status \in {"prelaunch", "running"}
    THEN (IF a.status = "running" /\ a.ready THEN "Ready" ELSE "Running")
    ELSE IF a.status \in {"inmigrate", "postmigrate", "finish-migrate",
                          "save-vm", "suspended", "paused"}
    THEN "Frozen"
    ELSE "Error"

\* statusCode as a function of what it reads.
StatusCode(a) ==
    IF a.lock = "start" THEN "Stopped"
    ELSE IF a.lock = "stop" THEN (IF a.ready THEN "Ready" ELSE "Running")
    ELSE IF ~a.connect THEN (IF a.pid > 0 THEN "Error" ELSE "Stopped")
    ELSE IF a.status = "disconnect"
    THEN (IF a.pid > 0 THEN "Error" ELSE "Stopped")
    ELSE IF a.status = "error" THEN "Error"
    ELSE IF a.status \in {"prelaunch", "running"}
    THEN (IF a.status = "running" /\ a.ready THEN "Ready" ELSE "Running")
    ELSE IF a.status \in {"inmigrate", "postmigrate", "finish-migrate",
                          "save-vm", "suspended", "paused"}
    THEN "Frozen"
    ELSE "Error"

\* A call of a function with its arguments, and its return.
Called(fn, args) == [pc |-> "called", fn |-> fn, args |-> args]

EvalStatusCode ==
    /\ eval.pc = "called" /\ eval.fn = "statusCode"
    /\ eval' = [pc |-> "done", fn |-> eval.fn, args |-> eval.args,
                out |-> StatusCode(eval.args)]

\* The maximum memory of addCPUMemoryConfig (driver_qemu.go 4173-4243).
\* Sizes are in GiB.

\* The physical address bits of kvm64.
DefaultPhysBits == 39

\* 1 TiB.
TiB == 1024

CPUTypes == {"host", "kvm64", "other"}

\* limits.memory.hotplug: unset, a boolean, or a size, which is hotplugSize.
HotplugValues == {"", "true", "false", "size"}

\* The lowest physical address bits of the host's sockets, 0 when none is
\* detected.
PhysBits == {0, 36, 40, 46}

CPUMemoryArgs ==
    [cpuType : CPUTypes, hotplug : HotplugValues, hotplugSize : {64, 2048},
     physBits : PhysBits, clustered : BOOLEAN, total : {16, 2048},
     memSize : {1, 64, 4096}]

\* The bytes 2^bits, in GiB.
PowBytes(bits) == 2 ^ (bits - 30)

\* The maximum derived from the physical address bits, one bit less for
\* QEMU's headroom, capped to 1 TiB.
DerivedMax(a) ==
    LET bits == IF a.physBits > 0
                   /\ (a.cpuType = "host" \/ a.physBits < DefaultPhysBits)
                THEN a.physBits ELSE DefaultPhysBits
        max == PowBytes(bits - 1) IN
    IF max > TiB THEN TiB ELSE max

\* What addCPUMemoryConfig gives qemuMemory as the maximum, and its error.
MaxMemory(a) ==
    IF a.cpuType \in {"host", "kvm64"} /\ a.hotplug # "false"
    THEN LET explicit == IF a.hotplug = "size" THEN a.hotplugSize ELSE 0
             max == IF explicit # 0 THEN explicit
                    ELSE IF ~a.clustered THEN a.total
                    ELSE DerivedMax(a) IN
         IF a.hotplug = "size" /\ explicit < a.memSize
         THEN [err |-> "err", max |-> 0]
         ELSE [err |-> "nil", max |-> IF max < a.memSize THEN a.memSize
                                      ELSE max]
    ELSE [err |-> "nil", max |-> a.memSize]

EvalMaxMemory ==
    /\ eval.pc = "called" /\ eval.fn = "addCPUMemoryConfig"
    /\ eval' = [pc |-> "done", fn |-> eval.fn, args |-> eval.args,
                out |-> MaxMemory(eval.args)]

\* The I/O mode of a drive in addDriveConfig (driver_qemu.go 4387-4541).

\* The filesystems a backing file may be on.
BackingFS == {"zfs", "btrfs", "ext4"}

\* The cache= option of the drive, "" without one.
CacheOptions == {"", "none", "writeback", "unsafe"}

\* What addDriveConfig is called with and what it finds: the io.uring option
\* of the drive, whether QEMU and the kernel support io_uring, whether the
\* source is an RBD image or a block device, the filesystem of a backing
\* file and whether it can be opened with O_DIRECT, the direct I/O option
\* and the cache= option.
DriveArgs ==
    [uring : BOOLEAN, supported : BOOLEAN, rbd : BOOLEAN, blockDev : BOOLEAN,
     fsType : BackingFS, direct : BOOLEAN, directIO : BOOLEAN,
     cache : CacheOptions]

\* The aio and cache modes after the source was looked at.
DetectedMode(a) ==
    LET aio == IF a.uring /\ a.supported THEN "io_uring" ELSE "native" IN
    IF a.rbd THEN [aio |-> aio, cache |-> "writeback"]
    ELSE IF ~a.blockDev
    THEN IF a.fsType \in {"zfs", "btrfs"}
         THEN [aio |-> "threads", cache |-> "writeback"]
         ELSE IF ~a.direct THEN [aio |-> aio, cache |-> "writeback"]
         ELSE [aio |-> aio, cache |-> "none"]
    ELSE IF ~a.directIO THEN [aio |-> "threads", cache |-> "unsafe"]
    ELSE [aio |-> aio, cache |-> "none"]

\* The block device keeping the aio mode whatever the cache mode.
DriveModeKeepsAio(a) ==
    LET m == DetectedMode(a)
        cache == IF a.cache # "" THEN a.cache ELSE m.cache IN
    [aio |-> m.aio, cacheMode |-> cache,
     direct |-> cache \notin {"unsafe", "writeback"},
     noFlush |-> cache = "unsafe"]

\* The aio mode and the two cache values of the block device given to QEMU:
\* the cache modes unsafe and writeback set the aio mode to threads.
DriveMode(a) ==
    LET m == DetectedMode(a)
        cache == IF a.cache # "" THEN a.cache ELSE m.cache IN
    [aio |-> IF cache \in {"unsafe", "writeback"} THEN "threads" ELSE m.aio,
     cacheMode |-> cache,
     direct |-> cache \notin {"unsafe", "writeback"},
     noFlush |-> cache = "unsafe"]

EvalDriveMode ==
    /\ eval.pc = "called" /\ eval.fn = "addDriveConfig"
    /\ eval' = [pc |-> "done", fn |-> eval.fn, args |-> eval.args,
                out |-> DriveMode(eval.args)]

InitEval ==
    /\ Parked /\ OthersIdle("eval")
    /\ \/ \E a \in StatusArgs : eval = Called("statusCode", a)
       \/ \E a \in CPUMemoryArgs : eval = Called("addCPUMemoryConfig", a)
       \/ \E a \in DriveArgs : eval = Called("addDriveConfig", a)

NextEval ==
    \/ EvalStatusCode /\ UNCHANGED evalRest
    \/ EvalMaxMemory /\ UNCHANGED evalRest
    \/ EvalDriveMode /\ UNCHANGED evalRest

SpecEval == InitEval /\ [][NextEval]_vars

\* The run states statusCode knows.
KnownRunStates == {"prelaunch", "running", "inmigrate", "postmigrate",
                   "finish-migrate", "save-vm", "suspended", "paused"}

\* QMP is unreachable: the connection fails or the monitor has disconnected.
Unreachable(a) == ~a.connect \/ a.status = "disconnect"

\* C32: statusCode returns Error if and only if no start or stop lock is
\* live and either QMP is unreachable while pid() reports a live process of
\* the instance, or QMP answers the status query with an error or with a run
\* state that is not known; with QMP unreachable and no such process it
\* returns Stopped.
C32_ErrorStatus ==
    (eval.pc = "done" /\ eval.fn = "statusCode") =>
        LET a == eval.args IN
        /\ eval.out = "Error" <=>
              /\ a.lock \notin {"start", "stop"}
              /\ \/ Unreachable(a) /\ a.pid > 0
                 \/ ~Unreachable(a) /\ a.status \notin KnownRunStates
        /\ (a.lock \notin {"start", "stop"} /\ Unreachable(a) /\ a.pid <= 0)
              => eval.out = "Stopped"

\* statusCode has returned Error for an instance under a restart lock whose
\* monitor has disconnected and whose process is alive.
C32_ErrorUnderRestart ==
    /\ eval.pc = "done" /\ eval.fn = "statusCode"
    /\ eval.args.lock = "restart" /\ eval.args.connect
    /\ eval.args.status = "disconnect" /\ eval.args.pid > 0
    /\ eval.out = "Error"

----------------------------------------------------------------------------
\* snapshot with the state of the guest (driver_qemu.go 5508-5561).

\* The arguments of snapshot and what it reads: whether the snapshot is
\* stateful, migration.stateful, whether the state volume has room, whether
\* the instance is running, whether its monitor can be connected to, and how
\* many of its statements may fail.
SnapshotArgs ==
    [stateful : BOOLEAN, migration : BOOLEAN, storage : BOOLEAN,
     running : BOOLEAN, connect : BOOLEAN, faults : 0..MaxFaults]

SnapshotCall(a) ==
    [pc |-> "checks", stateful |-> a.stateful, migration |-> a.migration,
     storage |-> a.storage, connect |-> a.connect,
     guest |-> IF a.running THEN "running" ELSE "stopped",
     was |-> IF a.running THEN "running" ELSE "stopped",
     saved |-> FALSE, stateFile |-> FALSE, taken |-> FALSE, err |-> "nil",
     faults |-> a.faults]

SnapshotReturn(err) == [snap EXCEPT !.pc = "done", !.err = err]

\* A statement of snapshot that may fail does.
SnapshotFails ==
    /\ snap.faults > 0
    /\ snap' = [SnapshotReturn("err") EXCEPT !.faults = @ - 1]

\* The checks of a stateful snapshot, and the connection to the monitor.
SnapshotChecks ==
    /\ snap.pc = "checks"
    /\ IF ~snap.stateful
       THEN snap' = [snap EXCEPT !.pc = "snapshotCommon"]
       ELSE IF \/ ~snap.migration \/ ~snap.storage
               \/ snap.guest # "running" \/ ~snap.connect
       THEN snap' = SnapshotReturn("err")
       ELSE snap' = [snap EXCEPT !.pc = "saveState"]

\* What a guest is left as by a saveState that fails.
FailedSaveStates == {"running", "paused"}

\* saveState: the state is written to the state file by a migration to a
\* file descriptor, at whose completion the guest is paused.
SnapshotSaveState ==
    /\ snap.pc = "saveState"
    /\ \/ snap' = [snap EXCEPT !.pc = "snapshotCommon", !.guest = "paused",
                               !.saved = TRUE, !.stateFile = TRUE]
       \/ /\ snap.faults > 0
          /\ \E g \in FailedSaveStates :
               snap' = [SnapshotReturn("err") EXCEPT
                           !.faults = @ - 1, !.guest = g, !.stateFile = TRUE]

\* snapshotCommon creates the snapshot.
SnapshotCreate ==
    /\ snap.pc = "snapshotCommon"
    /\ \/ snap' = [snap EXCEPT
                      !.taken = TRUE,
                      !.pc = IF snap.stateful THEN "remove" ELSE "done"]
       \/ SnapshotFails

\* A stateful snapshot removes the state file from the main volume and
\* resumes the guest with monitor.Start.
SnapshotResume ==
    /\ snap.pc \in {"remove", "resume"}
    /\ IF snap.pc = "remove"
       THEN \/ snap' = [snap EXCEPT !.pc = "resume", !.stateFile = FALSE]
            \/ SnapshotFails
       ELSE \/ snap' = [snap EXCEPT !.pc = "done", !.guest = "running"]
            \/ SnapshotFails

InitStatefulSnapshot ==
    /\ Parked /\ OthersIdle("snap")
    /\ \E a \in SnapshotArgs : snap = SnapshotCall(a)

NextStatefulSnapshot ==
    \/ SnapshotChecks /\ UNCHANGED snapRest
    \/ SnapshotSaveState /\ UNCHANGED snapRest
    \/ SnapshotCreate /\ UNCHANGED snapRest
    \/ SnapshotResume /\ UNCHANGED snapRest

SpecStatefulSnapshot == InitStatefulSnapshot /\ [][NextStatefulSnapshot]_vars

\* C33: a stateful snapshot that fails after the state of the guest was
\* saved resumes the guest before it returns the error: a failed stateful
\* snapshot never leaves a guest paused that was running.
C33_FailedSnapshotResumes ==
    (snap.pc = "done" /\ snap.err = "err" /\ snap.saved) =>
        snap.guest = "running"

----------------------------------------------------------------------------
\* Restore of an instance that may be ephemeral (driver_qemu.go 5572-5690).

\* The configurations an instance or a snapshot may have: the local config,
\* the local devices and the profiles taken together.
Configs == {"current", "earlier"}

\* What Restore is called with and what it reads: the configuration of the
\* instance and of the source snapshot, the ephemeral flag of each, whether
\* the instance is running, the stateful argument, and how many of its
\* statements may fail.
RestoreArgs ==
    [conf : Configs, source : Configs, ephemeral : BOOLEAN,
     sourceEphemeral : BOOLEAN, running : BOOLEAN, stateful : BOOLEAN,
     faults : 0..MaxFaults]

\* No deferred Update is registered.
NoArgs == [set |-> FALSE, conf |-> "current"]

RestoreCall(a) ==
    [pc |-> "running", conf |-> a.conf, source |-> a.source,
     ephemeral |-> a.ephemeral, sourceEphemeral |-> a.sourceEphemeral,
     running |-> a.running, stateful |-> a.stateful,
     wasRunning |-> a.running, wasEphemeral |-> a.running /\ a.ephemeral,
     args |-> NoArgs, exists |-> TRUE, restored |-> FALSE, err |-> "nil",
     faults |-> a.faults]

\* Restore returns err once its deferred functions have run.
RestoreReturn(r, err) == [r EXCEPT !.pc = "deferred", !.err = err]

\* A statement of Restore that may fail does.
RestoreFails ==
    /\ rst.faults > 0
    /\ rst' = [RestoreReturn(rst, "err") EXCEPT !.faults = @ - 1]

\* The ephemeral flag of a running instance is unset with an Update whose
\* arguments are the instance's own configuration, and an Update of the same
\* arguments with the flag set is deferred to the return.
RestoreUnsetEphemeral ==
    /\ rst.pc = "running"
    /\ IF ~rst.running
       THEN rst' = [rst EXCEPT !.pc = "RestoreInstanceSnapshot"]
       ELSE IF ~rst.ephemeral
       THEN rst' = [rst EXCEPT !.pc = "Stop"]
       ELSE \/ rst' = [rst EXCEPT
                          !.pc = "Stop", !.ephemeral = FALSE,
                          !.args = [set |-> TRUE, conf |-> rst.conf]]
            \/ /\ rst.faults > 0
               /\ rst' = [rst EXCEPT !.pc = "done", !.err = "err",
                                     !.faults = @ - 1]

\* Stop, and onStop at the end of it, which deletes an instance whose
\* ephemeral flag is set.
RestoreStop ==
    /\ rst.pc = "Stop"
    /\ \/ rst' = [rst EXCEPT !.pc = "RestoreInstanceSnapshot",
                             !.running = FALSE, !.exists = ~rst.ephemeral]
       \/ RestoreFails

\* The storage pool restores the root volume from the snapshot.
RestoreInstanceSnapshot ==
    /\ rst.pc = "RestoreInstanceSnapshot"
    /\ \/ rst' = [rst EXCEPT !.pc = "Update", !.restored = TRUE]
       \/ RestoreFails

\* Update with the configuration of the source snapshot.
RestoreConfig ==
    /\ rst.pc = "Update"
    /\ \/ rst' = [rst EXCEPT
                     !.pc = IF rst.wasRunning \/ rst.stateful
                            THEN "Start" ELSE "deferred",
                     !.conf = rst.source, !.ephemeral = rst.sourceEphemeral]
       \/ RestoreFails

\* An instance that was running, or one restored with its state, is started.
RestoreStart ==
    /\ rst.pc = "Start"
    /\ \/ rst' = [rst EXCEPT !.pc = "deferred", !.running = TRUE]
       \/ RestoreFails

\* The deferred Update: the arguments built before the instance was stopped,
\* with the ephemeral flag set. Its error is dropped.
RestoreDeferred ==
    /\ rst.pc = "deferred"
    /\ IF ~rst.args.set
       THEN rst' = [rst EXCEPT !.pc = "done"]
       ELSE \/ rst' = [rst EXCEPT !.pc = "done", !.conf = rst.args.conf,
                                  !.ephemeral = TRUE]
            \/ /\ rst.faults > 0
               /\ rst' = [rst EXCEPT !.pc = "done", !.faults = @ - 1]

InitRestore ==
    /\ Parked /\ OthersIdle("rst")
    /\ \E a \in RestoreArgs : rst = RestoreCall(a)

NextRestore ==
    \/ RestoreUnsetEphemeral /\ UNCHANGED rstRest
    \/ RestoreStop /\ UNCHANGED rstRest
    \/ RestoreInstanceSnapshot /\ UNCHANGED rstRest
    \/ RestoreConfig /\ UNCHANGED rstRest
    \/ RestoreStart /\ UNCHANGED rstRest
    \/ RestoreDeferred /\ UNCHANGED rstRest

SpecRestore == InitRestore /\ [][NextRestore]_vars

\* C34: after Restore has returned nil the configuration of the instance is
\* that of the source snapshot, and an instance that was running and
\* ephemeral still exists and has its ephemeral flag set again.
C34_RestoredConfig ==
    (rst.pc = "done" /\ rst.err = "nil") =>
        /\ rst.conf = rst.source
        /\ rst.wasEphemeral => rst.exists /\ rst.ephemeral

----------------------------------------------------------------------------
\* The end of MigrateReceive (driver_qemu.go 7982-8284): the control monitor
\* and the filesystem transfer run in a group whose context is cancelled when
\* the first of them has returned an error; MigrateReceive waits for the
\* transfer to finish and answers the source.

\* The routines of the group.
Routines == {"control", "transfer"}

\* MigrateReceive once its routines are started: live says whether the
\* migration is live, faults how many of the statements may fail. Of a
\* routine, state says whether its function runs, has returned, or is done
\* (the group has seen its result), and err what it returned. closed is
\* fsTransferDone, cancelled the group's context, first the group's error,
\* failed whether a routine had returned an error when the transfer finished,
\* sent and message the control message sent to the source.
ReceiveCall(live, f) ==
    [pc |-> "fsTransferDone", live |-> live, faults |-> f,
     state |-> [r \in Routines |-> "runs"],
     err |-> [r \in Routines |-> "nil"],
     closed |-> FALSE, cancelled |-> FALSE, first |-> "nil",
     disconnected |-> FALSE, started |-> FALSE, failed |-> FALSE,
     sent |-> "none", message |-> "nil", reverter |-> "pending",
     ret |-> "none"]

\* The function of routine r returns err.
Returned(r, err) ==
    [recv EXCEPT !.state[r] = "returned", !.err[r] = err]

\* The control monitor ends with the message of the source, with the end of
\* the connection, or with the cancellation of the context.
ControlMonitor ==
    /\ recv.state["control"] = "runs"
    /\ \/ /\ ~recv.disconnected
          /\ recv' = Returned("control", "nil")
       \/ recv' = Returned("control", "source")
       \/ /\ recv.cancelled
          /\ recv' = Returned("control", "canceled")

\* The transfer routine ends, after the start of the guest when the
\* migration is live, and closes fsTransferDone as it returns.
FsTransfer ==
    /\ recv.state["transfer"] = "runs"
    /\ \/ /\ ~recv.disconnected
          /\ recv' = [Returned("transfer", "nil") EXCEPT
                         !.closed = TRUE, !.started = recv.live,
                         !.failed = recv.err["control"] # "nil"]
       \/ /\ recv.faults > 0 \/ recv.disconnected
          /\ recv' = [Returned("transfer", "transfer") EXCEPT
                         !.closed = TRUE, !.failed = TRUE,
                         !.faults = IF recv.disconnected THEN @ ELSE @ - 1]

\* The group sees what the function of routine r has returned: the first
\* error is kept and cancels the context.
GroupDone(r) ==
    /\ recv.state[r] = "returned"
    /\ recv' = [recv EXCEPT
                   !.state[r] = "done",
                   !.first = IF @ = "nil" THEN recv.err[r] ELSE @,
                   !.cancelled = @ \/ recv.err[r] # "nil"]

\* The error monitor disconnects the migration connections once the context
\* is cancelled.
Disconnect ==
    /\ recv.cancelled /\ ~recv.disconnected
    /\ recv' = [recv EXCEPT !.disconnected = TRUE]

\* MigrateReceive has waited for fsTransferDone and reads ctx.Err().
ReceiveTransferDone ==
    /\ recv.pc = "fsTransferDone" /\ recv.closed
    /\ recv' = [recv EXCEPT
                   !.pc = IF recv.cancelled THEN "failure" ELSE "success"]

AllDone == \A r \in Routines : recv.state[r] = "done"

\* The context was cancelled: the routines are waited for and the first
\* error is sent to the source and returned; the reverter runs.
ReceiveFailure ==
    /\ recv.pc = "failure" /\ AllDone
    /\ recv' = [recv EXCEPT
                   !.pc = "done",
                   !.sent = IF recv.first = "nil" THEN "true" ELSE "false",
                   !.message = recv.first, !.ret = recv.first,
                   !.reverter = "Fail"]

\* The context was not cancelled: success is sent to the source.
ReceiveSuccess ==
    /\ recv.pc = "success"
    /\ \/ recv' = [recv EXCEPT !.pc = "Wait", !.sent = "true"]
       \/ /\ recv.faults > 0
          /\ recv' = [recv EXCEPT !.pc = "done", !.sent = "true",
                                  !.ret = "send", !.reverter = "Fail",
                                  !.faults = @ - 1]

\* The routines are waited for, their error is dropped and the reverter is
\* committed.
ReceiveCommit ==
    /\ recv.pc = "Wait" /\ AllDone
    /\ recv' = [recv EXCEPT !.pc = "done", !.ret = "nil",
                            !.reverter = "Success"]

InitReceive ==
    /\ Parked /\ OthersIdle("recv")
    /\ \E live \in BOOLEAN : \E f \in 0..MaxFaults :
         recv = ReceiveCall(live, f)

NextReceive ==
    \/ ControlMonitor /\ UNCHANGED recvRest
    \/ FsTransfer /\ UNCHANGED recvRest
    \/ (\E r \in Routines : GroupDone(r)) /\ UNCHANGED recvRest
    \/ Disconnect /\ UNCHANGED recvRest
    \/ ReceiveTransferDone /\ UNCHANGED recvRest
    \/ ReceiveFailure /\ UNCHANGED recvRest
    \/ ReceiveSuccess /\ UNCHANGED recvRest
    \/ ReceiveCommit /\ UNCHANGED recvRest

SpecReceive == InitReceive /\ [][NextReceive]_vars

\* C35: success is sent to the source only if no routine had failed when the
\* transfer routine finished, else the first error is sent with
\* Success=false; the reverter is committed only in the first case.
C35_SuccessOnlyWithoutFailure ==
    /\ recv.sent = "true" => ~recv.failed
    /\ recv.sent = "false" => recv.failed /\ recv.message = recv.first
    /\ (recv.pc = "done" /\ recv.failed) => recv.sent = "false"
    /\ recv.reverter = "Success" => recv.sent = "true" /\ ~recv.failed

----------------------------------------------------------------------------
\* Hot-detach: deviceDetachPath and deviceDetachBlockDevice (driver_qemu.go
\* 2641-2718).

\* The seconds after which the removal is given up.
WaitDuration == 10

\* The seconds slept after QEMU has answered Locked.
LockedSleep == 2

DetachFunctions == {"deviceDetachPath", "deviceDetachBlockDevice"}

\* What QEMU answers to the removal of the block node or the chardev.
RemoveAnswers == {"nil", "Locked", "error"}

\* The seconds a command takes to be answered.
CommandSeconds == {0, 1}

\* The clock stops once the deadline is well past: later times are not told
\* apart.
ClockEnd == WaitDuration + LockedSleep

Advance(now, seconds) ==
    IF now + seconds > ClockEnd THEN ClockEnd ELSE now + seconds

\* A detach by function fn: connect says whether the monitor can be
\* connected to, f how many commands may fail; now are the seconds since
\* device_del was answered.
DetachCall(fn, connect, f) ==
    [pc |-> "qmpConnect", fn |-> fn, connect |-> connect, faults |-> f,
     now |-> 0, answer |-> "none", err |-> "none"]

DetachConnect ==
    /\ det.pc = "qmpConnect"
    /\ IF det.connect
       THEN det' = [det EXCEPT !.pc = "RemoveDevice"]
       ELSE det' = [det EXCEPT !.pc = "done", !.err = "err"]

\* RemoveFDFromFDSet for a block device, then device_del; the deadline is
\* set once they are answered.
DetachRemoveDevice ==
    /\ det.pc = "RemoveDevice"
    /\ \/ det' = [det EXCEPT !.pc = "remove"]
       \/ /\ det.faults > 0
          /\ det' = [det EXCEPT !.pc = "done", !.err = "err",
                                !.faults = @ - 1]

\* RemoveBlockDevice or RemoveCharDevice is sent and QEMU answers.
DetachRemove ==
    /\ det.pc = "remove"
    /\ \E a \in RemoveAnswers : \E s \in CommandSeconds :
         det' = [det EXCEPT !.pc = "answer", !.answer = a,
                            !.now = Advance(@, s)]

\* What the loop does with the answer: nil ends it, Locked sleeps and tries
\* again, another error tries again until the deadline is past.
DetachAnswer ==
    /\ det.pc = "answer"
    /\ IF det.answer = "nil"
       THEN det' = [det EXCEPT !.pc = "done", !.err = "nil"]
       ELSE IF det.answer = "Locked"
       THEN det' = [det EXCEPT !.pc = "remove",
                               !.now = Advance(@, LockedSleep)]
       ELSE IF det.now > WaitDuration
       THEN det' = [det EXCEPT !.pc = "done", !.err = "err"]
       ELSE det' = [det EXCEPT !.pc = "remove"]

InitDetach ==
    /\ Parked /\ OthersIdle("det")
    /\ \E fn \in DetachFunctions : \E c \in BOOLEAN : \E f \in 0..MaxFaults :
         det = DetachCall(fn, c, f)

NextDetach ==
    \/ DetachConnect /\ UNCHANGED detRest
    \/ DetachRemoveDevice /\ UNCHANGED detRest
    \/ DetachRemove /\ UNCHANGED detRest
    \/ DetachAnswer /\ UNCHANGED detRest

\* The detach takes its steps as long as it has some to take.
SpecDetach == InitDetach /\ [][NextDetach]_vars /\ WF_vars(NextDetach)

\* C36: a hot-detach terminates, whatever QEMU answers.
C36_DetachTerminates == <>(det.pc = "done")

----------------------------------------------------------------------------
\* The lock of ConsoleLog at its return (driver_qemu.go 10084-10094).

\* Caller p's ConsoleLog returns.
ConsoleLogReturns(p) ==
    /\ At(p, "ConsoleLog", "read") /\ stack'[p] # stack[p]

\* C37: ConsoleLog marks done only a lock whose action is ConsoleRetrieve,
\* which is one it has created; a lock it has inherited or reused is as live
\* after its return as it was before, and so is every other lock.
C37_ConsoleLogKeepsInherited ==
    [][\A p \in Procs : ConsoleLogReturns(p) =>
          LET f == Top(p) IN
          /\ DOMAIN ops' = DOMAIN ops
          /\ \A i \in DOMAIN ops : i # f.op => ops'[i] = ops[i]
          /\ IF ops[f.op].action = "consoleretrieve"
             THEN f.acq = "created" /\ ops'[f.op].res # "live"
             ELSE f.acq \in {"inherit", "reuse"} /\ ops' = ops]_vars

\* A Stop under a live restart lock goes on after its ConsoleLog, which has
\* read the console without a lock of its own.
C37_ReadUnderRestart ==
    \E p \in Procs :
        /\ Depth(p) > 0 /\ Top(p).fn = "Stop" /\ Top(p).pc = "lock"
        /\ Top(p).rv = "nil"
        /\ Get # 0 /\ ops[Get].action = "restart"
        /\ \A i \in DOMAIN ops : ops[i].action # "consoleretrieve"

----------------------------------------------------------------------------
\* updateMemoryLimit (driver_qemu.go 6471-6550).

\* The memory sizes of the model, in MiB.
MemorySizes == {100, 198, 200, 203, 300}

\* The times the balloon size is polled.
BalloonPolls == 10

\* What updateMemoryLimit is called with and what it reads: the limit the
\* instance had and the new one, the base memory QEMU reports (the memory the
\* guest was started with), limits.memory.hugepages and
\* limits.memory.hotplug, whether the monitor can be connected to, and how
\* many commands may fail. The balloon is at the limit the instance had.
MemoryArgs ==
    [old : MemorySizes, new : MemorySizes, base : MemorySizes,
     hugepages : BOOLEAN, hotplug : BOOLEAN, connect : BOOLEAN,
     faults : 0..MaxFaults]

MemoryCall(a) ==
    [pc |-> "checks", old |-> a.old, new |-> a.new, base |-> a.base,
     cur |-> a.old, hugepages |-> a.hugepages, hotplug |-> a.hotplug,
     connect |-> a.connect, faults |-> a.faults, target |-> a.old,
     hotplugged |-> 0, polls |-> 0, within |-> FALSE, err |-> "none"]

MemoryReturn(err) == [mem EXCEPT !.pc = "done", !.err = err]

\* A command sent to the monitor fails.
MemoryFails ==
    /\ mem.faults > 0
    /\ mem' = [MemoryReturn("err") EXCEPT !.faults = @ - 1]

\* The check of huge pages and the connection to the monitor.
MemoryChecks ==
    /\ mem.pc = "checks"
    /\ IF mem.hugepages \/ ~mem.connect
       THEN mem' = MemoryReturn("err")
       ELSE mem' = [mem EXCEPT !.pc = "sizes"]

\* The base memory and the balloon size are read: a new limit above the
\* base memory is left to hotplugMemory, which is given the difference
\* between the new limit and the balloon size.
MemorySizesRead ==
    /\ mem.pc = "sizes"
    /\ \/ MemoryFails
       \/ IF mem.cur = mem.new
          THEN mem' = MemoryReturn("nil")
          ELSE IF mem.base < mem.new
          THEN IF ~mem.hotplug
               THEN mem' = MemoryReturn("err")
               ELSE mem' = [mem EXCEPT !.pc = "hotplugMemory"]
          ELSE mem' = [mem EXCEPT !.pc = "balloon"]

\* hotplugMemory adds memory devices of the size it is given.
MemoryHotplug ==
    /\ mem.pc = "hotplugMemory"
    /\ \/ mem' = [MemoryReturn("nil") EXCEPT
                     !.hotplugged = mem.new - mem.cur]
       \/ MemoryFails

\* The balloon target is set to the new limit.
MemorySetBalloon ==
    /\ mem.pc = "balloon"
    /\ \/ mem' = [mem EXCEPT !.pc = "poll", !.target = mem.new]
       \/ MemoryFails

Difference(a, b) == IF a < b THEN b - a ELSE a - b

\* A poll of the balloon size, which the guest may have brought to any size:
\* within one per cent of the new limit it is the success, else the next
\* poll follows half a second later, and the tenth is the last.
MemoryPoll ==
    /\ mem.pc = "poll"
    /\ \/ MemoryFails
       \/ \E size \in MemorySizes :
            IF Difference(size, mem.new) <= mem.new \div 100
            THEN mem' = [MemoryReturn("nil") EXCEPT
                            !.cur = size, !.polls = @ + 1, !.within = TRUE]
            ELSE IF mem.polls + 1 = BalloonPolls
            THEN mem' = [MemoryReturn("err") EXCEPT
                            !.cur = size, !.polls = @ + 1]
            ELSE mem' = [mem EXCEPT !.cur = size, !.polls = @ + 1]

InitMemory ==
    /\ Parked /\ OthersIdle("mem")
    /\ \E a \in MemoryArgs : mem = MemoryCall(a)

NextMemory ==
    \/ MemoryChecks /\ UNCHANGED memRest
    \/ MemorySizesRead /\ UNCHANGED memRest
    \/ MemoryHotplug /\ UNCHANGED memRest
    \/ MemorySetBalloon /\ UNCHANGED memRest
    \/ MemoryPoll /\ UNCHANGED memRest

SpecMemory == InitMemory /\ [][NextMemory]_vars

\* C38: a decrease of limits.memory is never left to hotplugMemory: it
\* lowers the balloon target, and returns nil if and only if a poll has
\* found the balloon within one per cent of the new limit.
C38_DecreaseByBalloon ==
    (mem.new < mem.old /\ mem.pc \in {"hotplugMemory", "done"}) =>
        /\ mem.pc # "hotplugMemory" /\ mem.hotplugged = 0
        /\ mem.pc = "done" =>
               (mem.err = "nil" <=> (mem.within /\ mem.target = mem.new))

----------------------------------------------------------------------------
\* The maximum memory without an explicit limits.memory.hotplug.

\* addCPUMemoryConfig has derived the maximum itself.
MaxMemoryDerived ==
    /\ eval.pc = "done" /\ eval.fn = "addCPUMemoryConfig"
    /\ eval.args.cpuType \in {"host", "kvm64"}
    /\ eval.args.hotplug \in {"", "true"}

\* C39: the derived maximum is never below limits.memory, and when it is
\* above it, it exceeds neither 1 TiB nor, on a standalone host, the total
\* memory of the host, nor what the physical address bits allow.
C39_MaxMemoryBounds ==
    MaxMemoryDerived =>
        LET a == eval.args
            max == eval.out.max IN
        /\ eval.out.err = "nil"
        /\ max >= a.memSize
        /\ max > a.memSize =>
              /\ max <= TiB /\ max <= DerivedMax(a)
              /\ ~a.clustered => max <= a.total

----------------------------------------------------------------------------
\* The I/O mode of a backing file that rejects O_DIRECT.

\* addDriveConfig has configured a drive that asked for io_uring on a host
\* that supports it, whose backing file rejects an O_DIRECT open and whose
\* cache mode no option overrides.
UringWithoutDirect ==
    /\ eval.pc = "done" /\ eval.fn = "addDriveConfig"
    /\ eval.args.uring /\ eval.args.supported
    /\ ~eval.args.rbd /\ ~eval.args.blockDev
    /\ eval.args.fsType \notin {"zfs", "btrfs"} /\ ~eval.args.direct
    /\ eval.args.cache = ""

============================================================================
